---- MODULE Spec2Model ----
(***************************************************************************)
(* A model of the Skillz MCP server (src/skillz.py): skill discovery by    *)
(* SkillRegistry.load, the request-time readers, and run_script with its   *)
(* temporary workspace.                                                    *)
(*                                                                         *)
(* Text (display names, slugs) is a sequence of one-character strings.     *)
(* A filesystem path is a sequence of segments, starting at "/".           *)
(***************************************************************************)
EXTENDS Naturals, Sequences, FiniteSets, TLC

VARIABLES
    disk,              \* the filesystem: [dirs: set of paths, files: path -> file]
    skills_by_slug,    \* SkillRegistry._skills_by_slug, an insertion-ordered dict
    skills_by_name,    \* SkillRegistry._skills_by_name, an insertion-ordered dict
    load_pc,           \* where SkillRegistry.load is: idle, iterating, done, raised
    load_todo,         \* the children load has still to visit, in sorted order
    inv                \* the requests in progress: caller -> its position and locals

-----------------------------------------------------------------------------
(* Bounds of the model. *)

\* How many entries the skills root holds at most.
MaxChildren == 3

\* The names the root's entries may have, in sorted (lexicographic) order.
DirNames == <<"alpha", "beta", "delta", "gamma", "omega">>

\* The raw `name` values a manifest header may give: padded, mixed case,
\* with separators, without any letter or digit, blank and missing.
RawNames ==
    { <<"A", " ", "b">>, <<"a", "-", "b">>, <<"a", "b">>, <<"A", "B">>,
      <<" ", "a", "b">>, <<"-">>, <<" ">>, <<>> }

RawDescriptions == { <<>>, <<"d">>, <<" ">> }

-----------------------------------------------------------------------------
(* Text helpers: what str.strip, str.lower and re.sub do, per character. *)

Whitespace == {" "}
AsciiAlnum ==
    {"a", "b", "d", "e", "f", "i", "k", "l", "n", "o", "r", "s", "t", "u",
     "A", "B", "F", "N", "T", "0", "1", "5"}

\* str.lower, per character; "u212a" is the Kelvin sign, whose lower case
\* is the ASCII letter k, "u00c9" and "u00e9" are E-acute and e-acute.
Lower(c) ==
    CASE c = "A" -> "a" [] c = "B" -> "b" [] c = "F" -> "f" [] c = "N" -> "n"
      [] c = "T" -> "t" [] c = "u212a" -> "k" [] c = "u00c9" -> "u00e9" [] OTHER -> c

RECURSIVE LStrip(_, _)
LStrip(s, drop) ==
    IF s = <<>> THEN <<>>
    ELSE IF Head(s) \in drop THEN LStrip(Tail(s), drop) ELSE s

RECURSIVE RStrip(_, _)
RStrip(s, drop) ==
    IF s = <<>> THEN <<>>
    ELSE IF s[Len(s)] \in drop THEN RStrip(SubSeq(s, 1, Len(s) - 1), drop) ELSE s

Strip(s, drop) == RStrip(LStrip(s, drop), drop)

LowerAll(s) == [i \in 1..Len(s) |-> Lower(s[i])]

\* re.sub(r"[^a-zA-Z0-9]+", "-", s): every maximal run of other characters
\* becomes one hyphen.
RECURSIVE CollapseRuns(_)
CollapseRuns(s) ==
    IF s = <<>> THEN <<>>
    ELSE IF Head(s) \in AsciiAlnum THEN <<Head(s)>> \o CollapseRuns(Tail(s))
    ELSE <<"-">> \o CollapseRuns(LStrip(Tail(s), {c \in {s[i] : i \in 1..Len(s)} : c \notin AsciiAlnum}))

FallbackSlug == <<"s", "k", "i", "l", "l">>

\* slugify without the strip("-") at the end.
slugify_NoTrim(value) ==
    LET cleaned == CollapseRuns(LowerAll(Strip(value, Whitespace)))
    IN  IF cleaned = <<>> THEN FallbackSlug ELSE cleaned

slugify(value) ==
    LET cleaned == Strip(CollapseRuns(LowerAll(Strip(value, Whitespace))), {"-"})
    IN  IF cleaned = <<>> THEN FallbackSlug ELSE cleaned

-----------------------------------------------------------------------------
(* Insertion-ordered dictionaries: a sequence of [key, value] entries.     *)

DictKeys(d) == {d[i].key : i \in 1..Len(d)}
DictHas(d, k) == k \in DictKeys(d)
DictGet(d, k) == d[CHOOSE i \in 1..Len(d) : d[i].key = k].value
\* DictSet that puts a new key first.
DictSet_Front(d, k, v) ==
    IF DictHas(d, k)
    THEN [i \in 1..Len(d) |-> IF d[i].key = k THEN [key |-> k, value |-> v] ELSE d[i]]
    ELSE <<[key |-> k, value |-> v]>> \o d

\* d[k] = v: a new key goes last, a known key keeps its place.
DictSet(d, k, v) ==
    IF DictHas(d, k)
    THEN [i \in 1..Len(d) |-> IF d[i].key = k THEN [key |-> k, value |-> v] ELSE d[i]]
    ELSE Append(d, [key |-> k, value |-> v])
DictValues(d) == [i \in 1..Len(d) |-> d[i].value]

-----------------------------------------------------------------------------
(* Manifests. The text of a SKILL.md is kept as what the parser sees in    *)
(* it: whether FRONT_MATTER_PATTERN matches, and the value the YAML header *)
(* decodes to.                                                             *)

SKILL_MARKDOWN == "SKILL.md"

\* The values yaml.safe_load gives.
YStr(chars) == [type |-> "str", chars |-> chars]
YNull == [type |-> "null"]
YInt(n) == [type |-> "int", n |-> n]
YBool(b) == [type |-> "bool", b |-> b]
YSeq(items) == [type |-> "seq", items |-> items]
YMap(entries) == [type |-> "map", entries |-> entries]
YInvalid == [type |-> "invalid"]

Manifest(front, header) == [front |-> front, header |-> header]

\* bool(value)
Truthy(v) ==
    CASE v.type = "str" -> v.chars # <<>>
      [] v.type = "null" -> FALSE
      [] v.type = "int" -> v.n # 0
      [] v.type = "bool" -> v.b
      [] v.type = "seq" -> v.items # <<>>
      [] v.type = "map" -> v.entries # <<>>

Digits == <<"0", "1", "2", "3", "4", "5", "6", "7", "8", "9">>

\* str(value); of a sequence or a mapping only the brackets are kept.
PyStr(v) ==
    CASE v.type = "str" -> v.chars
      [] v.type = "null" -> <<"N", "o", "n", "e">>
      [] v.type = "int" -> <<Digits[v.n + 1]>>
      [] v.type = "bool" -> IF v.b THEN <<"T", "r", "u", "e">>
                            ELSE <<"F", "a", "l", "s", "e">>
      [] v.type = "seq" -> <<"[", "]">>
      [] v.type = "map" -> <<"{", "}">>

\* dict.get(key, default)
GetOr(entries, key, default) ==
    IF DictHas(entries, key) THEN DictGet(entries, key) ELSE default

\* str.split(",")
RECURSIVE SplitComma(_)
SplitComma(s) ==
    IF \A k \in 1..Len(s) : s[k] # "," THEN <<s>>
    ELSE LET k == CHOOSE k \in 1..Len(s) : s[k] = "," /\ \A j \in 1..(k - 1) : s[j] # ","
         IN  <<SubSeq(s, 1, k - 1)>> \o SplitComma(SubSeq(s, k + 1, Len(s)))

\* The stripped items that are not empty, in order.
StripAll(items) ==
    SelectSeq([k \in 1..Len(items) |-> Strip(items[k], Whitespace)], LAMBDA t : t # <<>>)

\* What iterating a value gives, stringified: the items of a sequence, the
\* keys of a mapping.
IterStr(v) ==
    IF v.type = "seq" THEN [k \in 1..Len(v.items) |-> PyStr(v.items[k])]
    ELSE [k \in 1..Len(v.entries) |-> <<v.entries[k].key>>]

KnownKeys == {"name", "description", "license", "allowed-tools", "allowed_tools"}

\* The header with a name and a description; <<>> leaves the key out.
Header(name, description) ==
    YMap((IF name = <<>> THEN <<>> ELSE <<[key |-> "name", value |-> YStr(name)]>>)
         \o (IF description = <<>> THEN <<>>
             ELSE <<[key |-> "description", value |-> YStr(description)]>>))

\* The manifests on disk: one with no front-matter block, one whose header
\* is a list, every raw name with a good description, and a good name with
\* a missing and a blank description.
ManifestTexts ==
    { Manifest("none", Header(<<"a", "b">>, <<"d">>)),
      Manifest("block", YSeq(<<YStr(<<"a">>)>>)) }
    \cup
    { Manifest("block", Header(n, <<"d">>)) : n \in RawNames }
    \cup
    { Manifest("block", Header(<<"a", "b">>, d)) : d \in RawDescriptions \ {<<"d">>} }

ValidationError == [ok |-> FALSE, error |-> "SkillValidationError"]

parse_skill_md(text) ==
    IF text.front = "none" THEN ValidationError
    ELSE IF text.header.type = "invalid" THEN ValidationError
    ELSE LET data == IF Truthy(text.header) THEN text.header ELSE YMap(<<>>)
         IN  IF data.type # "map" THEN ValidationError
             ELSE
             LET name == Strip(PyStr(GetOr(data.entries, "name", YStr(<<>>))), Whitespace)
                 description ==
                     Strip(PyStr(GetOr(data.entries, "description", YStr(<<>>))), Whitespace)
                 dashed == GetOr(data.entries, "allowed-tools", YNull)
                 underscored == GetOr(data.entries, "allowed_tools", YNull)
                 allowed == IF Truthy(dashed) THEN dashed
                            ELSE IF Truthy(underscored) THEN underscored
                            ELSE YSeq(<<>>)
                 allowed_list ==
                     IF allowed.type = "str" THEN StripAll(SplitComma(allowed.chars))
                     ELSE IF allowed.type \in {"seq", "map"} THEN StripAll(IterStr(allowed))
                     ELSE <<>>
                 extra == SelectSeq(data.entries, LAMBDA e : e.key \notin KnownKeys)
                 license == GetOr(data.entries, "license", YNull)
             IN  IF name = <<>> THEN ValidationError
                 ELSE IF description = <<>> THEN ValidationError
                 ELSE [ok |-> TRUE,
                       metadata |-> [name |-> name,
                                     description |-> description,
                                     license |-> IF Truthy(license)
                                                 THEN YStr(Strip(PyStr(license), Whitespace))
                                                 ELSE YNull,
                                     allowed_tools |-> allowed_list,
                                     extra |-> extra]]

-----------------------------------------------------------------------------
(* The filesystem. *)

SkillsRoot == <<"/", "skills">>

\* A file: its content, the launcher tokens of its "#!" first line (none:
\* <<>>) and its executable bit.
File(text, shebang, x) == [text |-> text, shebang |-> shebang, x |-> x]

IsDir(fs, p) == p \in fs.dirs
IsFile(fs, p) == p \in DOMAIN fs.files
Exists(fs, p) == IsDir(fs, p) \/ IsFile(fs, p)

\* Path.iterdir: the entries directly under a directory.
IterDir(fs, p) ==
    {q \in fs.dirs \cup DOMAIN fs.files : Len(q) = Len(p) + 1 /\ SubSeq(q, 1, Len(p)) = p}

RankOf(name) == CHOOSE i \in 1..Len(DirNames) : DirNames[i] = name

\* sorted(paths): by the last segment, the paths being siblings.
RECURSIVE Sorted(_)
Sorted(paths) ==
    IF paths = {} THEN <<>>
    ELSE LET first == CHOOSE p \in paths :
                          \A q \in paths : RankOf(p[Len(p)]) <= RankOf(q[Len(q)])
         IN  <<first>> \o Sorted(paths \ {first})

-----------------------------------------------------------------------------
(* SkillRegistry. *)

\* The names of the files and directories of a bundle, in sorted order.
PathNames ==
    <<"RUN.PY", "SKILL.md", "a.bash", "a.js", "a.ps1", "a.sh", "bin", "data.txt", "ghost",
      "nested.zip", "notes.md", "run.py", "sub", "tool">>
NameRank(name) == CHOOSE k \in 1..Len(PathNames) : PathNames[k] = name

\* p < q for two paths: segment by segment, a prefix before what extends it.
PathLess(p, q) ==
    \E k \in 1..Len(q) :
       /\ k <= Len(p) + 1
       /\ \A j \in 1..(k - 1) : p[j] = q[j]
       /\ k = Len(p) + 1 \/ (p[k] # q[k] /\ NameRank(p[k]) < NameRank(q[k]))

\* sorted(paths)
RECURSIVE SortedPaths(_)
SortedPaths(paths) ==
    IF paths = {} THEN <<>>
    ELSE LET first == CHOOSE p \in paths : \A q \in paths \ {p} : PathLess(p, q)
         IN  <<first>> \o SortedPaths(paths \ {first})

\* directory.rglob("*"), the files of it: every file below the directory.
RGlobFiles(fs, directory) ==
    {f \in DOMAIN fs.files :
        Len(f) > Len(directory) /\ SubSeq(f, 1, Len(directory)) = directory}

\* SkillRegistry._collect_resources
collect_resources(fs, directory) ==
    LET rel(f) == SubSeq(f, Len(directory) + 1, Len(f))
        others == {f \in RGlobFiles(fs, directory) : rel(f) # <<SKILL_MARKDOWN>>}
        sorted == SortedPaths(others)
    IN  <<<<SKILL_MARKDOWN>>>> \o [k \in 1..Len(sorted) |-> rel(sorted[k])]

\* LoadChildStep without the duplicate-slug check: the last candidate wins.
LoadChildStep_NoSlugCheck(fs, by_slug, by_name, child) ==
    LET skip == [by_slug |-> by_slug, by_name |-> by_name, raised |-> FALSE]
        skill_md == Append(child, SKILL_MARKDOWN)
    IN  IF ~IsDir(fs, child) THEN skip
        ELSE IF ~IsFile(fs, skill_md) THEN skip
        ELSE LET parsed == parse_skill_md(fs.files[skill_md].text)
             IN  IF ~parsed.ok THEN skip
                 ELSE LET slug == slugify(parsed.metadata.name)
                          skill == [slug |-> slug,
                                    directory |-> child,
                                    instructions_path |-> skill_md,
                                    metadata |-> parsed.metadata,
                                    resources |-> collect_resources(fs, child)]
                      IN  IF DictHas(by_name, parsed.metadata.name) THEN skip
                          ELSE [by_slug |-> DictSet(by_slug, slug, skill),
                                by_name |-> DictSet(by_name, parsed.metadata.name, skill),
                                raised |-> FALSE]

\* LoadChildStep without the try/except around parse_skill_md: an invalid
\* manifest ends the load.
LoadChildStep_NoCatch(fs, by_slug, by_name, child) ==
    LET skip == [by_slug |-> by_slug, by_name |-> by_name, raised |-> FALSE]
        skill_md == Append(child, SKILL_MARKDOWN)
    IN  IF ~IsDir(fs, child) THEN skip
        ELSE IF ~IsFile(fs, skill_md) THEN skip
        ELSE LET parsed == parse_skill_md(fs.files[skill_md].text)
             IN  IF ~parsed.ok THEN [skip EXCEPT !.raised = TRUE]
                 ELSE LET slug == slugify(parsed.metadata.name)
                          skill == [slug |-> slug,
                                    directory |-> child,
                                    instructions_path |-> skill_md,
                                    metadata |-> parsed.metadata,
                                    resources |-> collect_resources(fs, child)]
                      IN  IF DictHas(by_slug, slug) THEN skip
                          ELSE IF DictHas(by_name, parsed.metadata.name) THEN skip
                          ELSE [by_slug |-> DictSet(by_slug, slug, skill),
                                by_name |-> DictSet(by_name, parsed.metadata.name, skill),
                                raised |-> FALSE]

\* LoadChildStep without the two duplicate checks: a candidate is registered
\* whatever is registered already.
LoadChildStep_NoDuplicateChecks(fs, by_slug, by_name, child) ==
    LET skip == [by_slug |-> by_slug, by_name |-> by_name, raised |-> FALSE]
        skill_md == Append(child, SKILL_MARKDOWN)
    IN  IF ~IsDir(fs, child) THEN skip
        ELSE IF ~IsFile(fs, skill_md) THEN skip
        ELSE LET parsed == parse_skill_md(fs.files[skill_md].text)
             IN  IF ~parsed.ok THEN skip
                 ELSE LET slug == slugify(parsed.metadata.name)
                          skill == [slug |-> slug,
                                    directory |-> child,
                                    instructions_path |-> skill_md,
                                    metadata |-> parsed.metadata,
                                    resources |-> collect_resources(fs, child)]
                      IN  [by_slug |-> DictSet(by_slug, slug, skill),
                           by_name |-> DictSet(by_name, parsed.metadata.name, skill),
                           raised |-> FALSE]

\* The loop pass without the check of the slug: only a display name
\* already registered skips the candidate.
LoadChildStep_NameCheckOnly(fs, by_slug, by_name, child) ==
    LET skip == [by_slug |-> by_slug, by_name |-> by_name, raised |-> FALSE]
        skill_md == Append(child, SKILL_MARKDOWN)
    IN  IF ~IsDir(fs, child) THEN skip
        ELSE IF ~IsFile(fs, skill_md) THEN skip
        ELSE LET parsed == parse_skill_md(fs.files[skill_md].text)
             IN  IF ~parsed.ok THEN skip
                 ELSE LET slug == slugify(parsed.metadata.name)
                          skill == [slug |-> slug,
                                    directory |-> child,
                                    instructions_path |-> skill_md,
                                    metadata |-> parsed.metadata,
                                    resources |-> collect_resources(fs, child)]
                      IN  IF DictHas(by_name, parsed.metadata.name) THEN skip
                          ELSE [by_slug |-> DictSet(by_slug, slug, skill),
                                by_name |-> DictSet(by_name, parsed.metadata.name, skill),
                                raised |-> FALSE]

\* One pass of the loop of SkillRegistry.load over `child`: the two
\* dictionaries after it, and whether an exception left the loop.
LoadChildStep(fs, by_slug, by_name, child) ==
    LET skip == [by_slug |-> by_slug, by_name |-> by_name, raised |-> FALSE]
        skill_md == Append(child, SKILL_MARKDOWN)
    IN  IF ~IsDir(fs, child) THEN skip
        ELSE IF ~IsFile(fs, skill_md) THEN skip
        ELSE LET parsed == parse_skill_md(fs.files[skill_md].text)
             IN  IF ~parsed.ok THEN skip
                 ELSE LET slug == slugify(parsed.metadata.name)
                          skill == [slug |-> slug,
                                    directory |-> child,
                                    instructions_path |-> skill_md,
                                    metadata |-> parsed.metadata,
                                    resources |-> collect_resources(fs, child)]
                      IN  IF DictHas(by_slug, slug) THEN skip
                          ELSE IF DictHas(by_name, parsed.metadata.name) THEN skip
                          ELSE [by_slug |-> DictSet(by_slug, slug, skill),
                                by_name |-> DictSet(by_name, parsed.metadata.name, skill),
                                raised |-> FALSE]

\* LoadBegin without the root check: the listing of whatever the root is.
LoadBegin_NoRootCheck ==
    /\ load_pc = "idle"
    /\ load_pc' = "iterating"
    /\ load_todo' = Sorted(IterDir(disk, SkillsRoot))
    /\ UNCHANGED <<disk, skills_by_slug, skills_by_name, inv>>

\* load(): the root check, then the sorted listing.
LoadBegin ==
    /\ load_pc = "idle"
    /\ IF ~Exists(disk, SkillsRoot) \/ ~IsDir(disk, SkillsRoot)
       THEN /\ load_pc' = "raised"
            /\ load_todo' = <<>>
       ELSE /\ load_pc' = "iterating"
            /\ load_todo' = Sorted(IterDir(disk, SkillsRoot))
    /\ UNCHANGED <<disk, skills_by_slug, skills_by_name, inv>>

LoadChild ==
    /\ load_pc = "iterating"
    /\ load_todo # <<>>
    /\ LET after == LoadChildStep(disk, skills_by_slug, skills_by_name, Head(load_todo))
       IN  /\ skills_by_slug' = after.by_slug
           /\ skills_by_name' = after.by_name
           /\ load_pc' = IF after.raised THEN "raised" ELSE load_pc
           /\ load_todo' = IF after.raised THEN <<>> ELSE Tail(load_todo)
    /\ UNCHANGED <<disk, inv>>

LoadEnd ==
    /\ load_pc = "iterating"
    /\ load_todo = <<>>
    /\ load_pc' = "done"
    /\ UNCHANGED <<disk, skills_by_slug, skills_by_name, load_todo, inv>>

\* SkillRegistry.get
RegistryGet(by_slug, slug) ==
    IF DictHas(by_slug, slug)
    THEN [kind |-> "skill", value |-> DictGet(by_slug, slug)]
    ELSE [kind |-> "SkillError", about |-> "unknown skill"]

QuerySlugs == {slugify(n) : n \in RawNames} \cup {<<"n", "o">>}

\* SkillRegistry.skills
RegistrySkills(by_slug) == [kind |-> "skills", value |-> DictValues(by_slug)]

-----------------------------------------------------------------------------
(* Paths. *)

IsPrefix(base, p) == Len(base) <= Len(p) /\ SubSeq(p, 1, Len(base)) = base
IsAbsolute(rel) == rel # <<>> /\ Head(rel) = "/"

\* base / relative: an absolute right-hand side replaces the base.
Join(base, rel) == IF IsAbsolute(rel) THEN rel ELSE base \o rel

\* Path.resolve() of an absolute path (the model holds no symbolic links):
\* "." is dropped, ".." removes the segment before it and stays at "/".
RECURSIVE Normalize(_, _)
Normalize(done, rest) ==
    IF rest = <<>> THEN done
    ELSE IF Head(rest) = "." THEN Normalize(done, Tail(rest))
    ELSE IF Head(rest) = ".."
         THEN Normalize(IF Len(done) > 1 THEN SubSeq(done, 1, Len(done) - 1) ELSE done,
                        Tail(rest))
    ELSE Normalize(Append(done, Head(rest)), Tail(rest))

Resolve(p) == Normalize(<<"/">>, Tail(p))

Raised(kind, about) == [ok |-> FALSE, error |-> [kind |-> kind, about |-> about]]

\* resolve_within without the relative_to check.
resolve_within_Unchecked(base, relative) ==
    [ok |-> TRUE, path |-> Resolve(Join(Resolve(base), relative))]

\* resolve_within that compares the paths before '..' is resolved.
resolve_within_Lexical(base, relative) ==
    LET base_resolved == Resolve(base)
        candidate == Join(base_resolved, relative)
    IN  IF IsPrefix(base_resolved, candidate)
        THEN [ok |-> TRUE, path |-> Resolve(candidate)]
        ELSE Raised("SkillError", "traversal")

resolve_within(base, relative) ==
    LET base_resolved == Resolve(base)
        candidate == Resolve(Join(base_resolved, relative))
    IN  IF IsPrefix(base_resolved, candidate)
        THEN [ok |-> TRUE, path |-> candidate]
        ELSE Raised("SkillError", "traversal")

Parent(p) == SubSeq(p, 1, Len(p) - 1)
Name(p) == p[Len(p)]

\* Everything at or below p.
DirsUnder(fs, p) == {d \in fs.dirs : IsPrefix(p, d)}
FilesUnder(fs, p) == {f \in DOMAIN fs.files : IsPrefix(p, f)}
Tree(fs, p) == [dirs |-> DirsUnder(fs, p),
                files |-> [f \in FilesUnder(fs, p) |-> fs.files[f]]]

Rebase(p, from, to) == to \o SubSeq(p, Len(from) + 1, Len(p))

\* shutil.copytree(src, dst, dirs_exist_ok=True)
CopyTree(fs, src, dst) ==
    LET copied == [f \in {Rebase(g, src, dst) : g \in FilesUnder(fs, src)} |->
                      fs.files[Rebase(f, dst, src)]]
    IN  [dirs |-> fs.dirs \cup {Rebase(d, src, dst) : d \in DirsUnder(fs, src)},
         files |-> copied @@ fs.files]

\* TemporaryDirectory.cleanup(): the directory and all below it.
RemoveTree(fs, p) ==
    [dirs |-> fs.dirs \ DirsUnder(fs, p),
     files |-> [f \in DOMAIN fs.files \ FilesUnder(fs, p) |-> fs.files[f]]]

\* Path.mkdir(parents=True, exist_ok=True)
Ancestors(p) == {SubSeq(p, 1, n) : n \in 1..Len(p)}
MkdirParents(fs, p) == [fs EXCEPT !.dirs = @ \cup Ancestors(p)]

WriteBytes(fs, p, data) ==
    [fs EXCEPT !.files = [f \in {p} |-> File(data, <<>>, FALSE)] @@ @]

-----------------------------------------------------------------------------
(* run_script. *)

DEFAULT_TIMEOUT == 60

TmpRoot == <<"/", "tmp">>
TmpNameSeq == <<"skillz-1", "skillz-2", "skillz-3", "skillz-4", "skillz-5">>

\* The launchers the host can start; sys.executable is one of them.
SysExecutable == "python"
InstalledLaunchers == {SysExecutable, "sh"}

\* Path.suffix.lower() of the file names the model holds.
Suffix(name) ==
    CASE name \in {"run.py", "nope.py", "RUN.PY"} -> ".py"
      [] name = "a.sh" -> ".sh"
      [] name = "a.bash" -> ".bash"
      [] name = "a.js" -> ".js"
      [] name = "a.ps1" -> ".ps1"
      [] name \in {"notes.md", "SKILL.md"} -> ".md"
      [] name \in {"data.txt", "in.txt", "out.txt"} -> ".txt"
      [] OTHER -> ""

\* decode_payload_content: the bytes, or the exception.
decode_payload_content(content, encoding) ==
    IF encoding = "text" THEN [ok |-> TRUE, bytes |-> "payload"]
    ELSE IF encoding = "base64"
         THEN IF content = "b64" THEN [ok |-> TRUE, bytes |-> "payload"]
              ELSE Raised("binascii.Error", "content")
    ELSE Raised("SkillError", "encoding")

Launcher(name) == [kind |-> "launcher", name |-> name]
Direct(path) == [kind |-> "path", path |-> path]

\* resolve_command: the launcher of a script, or the exception.
\* The sign a first line starts with to name the launcher, and the quote of
\* shlex.
Marker == "#!"
Quote == "'"

\* handle.readline(): the first line of a file, as a sequence of words, blanks
\* and quotes. A file given by its shebang has the marker and the launchers.
FirstLine(file) ==
    IF "first_line" \in DOMAIN file THEN file.first_line
    ELSE IF file.shebang = <<>> THEN <<>>
    ELSE <<Marker>> \o [k \in 1..Len(file.shebang) |-> file.shebang[k].name]

\* shlex.split: the words of a line; a quote that is not closed is a
\* ValueError.
shlex_split(line) ==
    LET words == SelectSeq(line, LAMBDA t : t \notin Whitespace \cup {Quote})
        quotes == SelectSeq(line, LAMBDA t : t = Quote)
    IN  IF Len(quotes) % 2 = 1 THEN Raised("ValueError", "shebang")
        ELSE [ok |-> TRUE, command |-> [k \in 1..Len(words) |-> Launcher(words[k])]]

resolve_command(fs, script_path) ==
    IF ~IsFile(fs, script_path) THEN Raised("IsADirectoryError", "target")
    ELSE LET first_line == Strip(FirstLine(fs.files[script_path]), Whitespace)
             ext == Suffix(Name(script_path))
         IN  IF first_line # <<>> /\ Head(first_line) = Marker
             THEN shlex_split(Strip(Tail(first_line), Whitespace))
             ELSE IF ext = ".py" THEN [ok |-> TRUE, command |-> <<Launcher(SysExecutable)>>]
             ELSE IF ext \in {".sh", ".bash"} THEN [ok |-> TRUE, command |-> <<Launcher("bash")>>]
             ELSE IF ext = ".js" THEN [ok |-> TRUE, command |-> <<Launcher("node")>>]
             ELSE IF ext = ".ps1"
                  THEN [ok |-> TRUE,
                        command |-> <<Launcher(IF "pwsh" \in InstalledLaunchers
                                               THEN "pwsh" ELSE "powershell")>>]
             ELSE IF fs.files[script_path].x THEN [ok |-> TRUE, command |-> <<Direct(script_path)>>]
             ELSE Raised("SkillExecutionError", "interpreter")

\* The loop over payload["files"]: the filesystem after it and the exception
\* that ended it, if any. What was written before the exception stays.
RECURSIVE WriteEntries(_, _, _)
WriteEntries(fs, copied_path, entries) ==
    IF entries = <<>> THEN [fs |-> fs, ok |-> TRUE]
    ELSE LET entry == Head(entries)
         IN  IF entry.type # "mapping"
             THEN [fs |-> fs] @@ Raised("AttributeError", "files")
             ELSE IF entry.path = <<>> \/ entry.content = "none"
             THEN [fs |-> fs] @@ Raised("SkillExecutionError", "files")
             ELSE LET dest == resolve_within(copied_path, entry.path)
                  IN  IF ~dest.ok THEN [fs |-> fs] @@ dest
                      ELSE LET made == MkdirParents(fs, Parent(dest.path))
                               bytes == decode_payload_content(entry.content, entry.encoding)
                           IN  IF ~bytes.ok THEN [fs |-> made] @@ bytes
                               ELSE IF IsDir(made, dest.path)
                               THEN [fs |-> made] @@ Raised("IsADirectoryError", "files")
                               ELSE WriteEntries(WriteBytes(made, dest.path, bytes.bytes),
                                                 copied_path, Tail(entries))

\* Lines 352-400 of run_script: args, stdin, env, workdir and the command.
PrepareCommand(fs, copied_path, rel_target, payload) ==
    IF payload.args \in {"str", "bytes"} THEN Raised("SkillExecutionError", "args")
    ELSE IF payload.args # "list" THEN Raised("SkillExecutionError", "args")
    ELSE IF payload.stdin.kind \notin {"none", "str", "mapping"}
         THEN Raised("SkillExecutionError", "stdin")
    ELSE LET stdin_data ==
                 IF payload.stdin.kind = "mapping"
                 THEN decode_payload_content(payload.stdin.content, payload.stdin.encoding)
                 ELSE [ok |-> TRUE, bytes |-> payload.stdin.kind]
         IN  IF ~stdin_data.ok THEN stdin_data
             ELSE IF payload.env # "mapping" THEN Raised("SkillExecutionError", "env")
             ELSE LET workdir == IF payload.workdir # <<>>
                                 THEN resolve_within(copied_path, payload.workdir)
                                 ELSE [ok |-> TRUE, path |-> Parent(rel_target)]
                  IN  IF ~workdir.ok THEN workdir
                      ELSE LET command == resolve_command(fs, rel_target)
                           IN  IF ~command.ok THEN command
                               ELSE [ok |-> TRUE,
                                     workdir |-> workdir.path,
                                     exec_command |->
                                         IF command.command # <<>>
                                            /\ command.command[1] # Direct(rel_target)
                                         THEN command.command \o <<Direct(rel_target)>>
                                         ELSE IF command.command # <<>> THEN command.command
                                         ELSE <<Direct(rel_target)>>]

\* Whether create_subprocess_exec can start the command in the directory.
CanSpawn(fs, exec_command, workdir) ==
    /\ IsDir(fs, workdir)
    /\ LET program == exec_command[1]
       IN  IF program.kind = "launcher" THEN program.name \in InstalledLaunchers
           ELSE IsFile(fs, program.path) /\ fs.files[program.path].x

NoPath == <<>>
NoOutcome == [kind |-> "none"]

IdleInvocation ==
    [pc |-> "idle", skill |-> NoPath, target |-> NoPath, payload |-> NoOutcome,
     timeout |-> 0, workspace |-> NoPath, copied_path |-> NoPath,
     rel_target |-> NoPath, workdir |-> NoPath, exec_command |-> <<>>,
     child |-> "none", spawned |-> 0, pending |-> NoOutcome,
     outcome |-> NoOutcome, surfaced |-> NoOutcome]

\* What _skill_tool hands its caller for what run_script returned or raised:
\* a SkillError (SkillExecutionError is one) becomes a ToolError.
Surface(outcome) ==
    IF outcome.kind \in {"SkillError", "SkillExecutionError"}
    THEN [kind |-> "ToolError", about |-> outcome.about]
    ELSE outcome

Finish(rec, outcome) ==
    [rec EXCEPT !.pc = "done", !.outcome = outcome, !.surfaced = Surface(outcome)]

Fail(rec, error) == [rec EXCEPT !.pc = "exit", !.pending = error]

regvars == <<skills_by_slug, skills_by_name, load_pc, load_todo>>

\* The positions at which a request is between two awaits: the event loop is
\* running its code and runs no other request's code until it awaits.
SyncPositions == {"enter", "copy", "files", "prepare", "kill", "exit"}

LoopFree(i) == \A j \in DOMAIN inv \ {i} : inv[j].pc \notin SyncPositions

\* _skill_tool(action="run_script") up to the with statement of run_script.
Call(i, skill, target, payload, timeout) ==
    /\ load_pc = "done"
    /\ inv[i].pc = "idle"
    /\ LoopFree(i)
    /\ LET rec == [inv[i] EXCEPT !.skill = skill.directory, !.target = target,
                                 !.payload = payload, !.timeout = timeout]
           source_path == resolve_within(skill.directory, target)
       IN  inv' = [inv EXCEPT ![i] =
                IF target = <<>> THEN Finish(rec, [kind |-> "SkillError", about |-> "target"])
                ELSE IF ~source_path.ok THEN Finish(rec, source_path.error)
                ELSE IF ~Exists(disk, source_path.path)
                THEN Finish(rec, [kind |-> "SkillExecutionError", about |-> "not found"])
                ELSE [rec EXCEPT !.pc = "enter"]]
    /\ UNCHANGED <<disk, regvars>>

\* A temporary directory whose name may be one in use.
FreshTmpNames_Any(fs) == {TmpNameSeq[k] : k \in 1..Cardinality(DOMAIN inv)}

\* The names tempfile.TemporaryDirectory may give a new directory.
\* mkdtemp never runs out of names: there are as many as there are callers.
TmpNames == {TmpNameSeq[k] : k \in 1..Cardinality(DOMAIN inv)}
FreshTmpNames(fs) == {w \in TmpNames : ~Exists(fs, Append(TmpRoot, w))}

\* TemporaryWorkspace.__enter__
Enter(i) ==
    /\ i \in DOMAIN inv
    /\ LoopFree(i)
    /\ inv[i].pc = "enter"
    /\ \E w \in FreshTmpNames(disk) :
          /\ disk' = [disk EXCEPT !.dirs = @ \cup {Append(TmpRoot, w)}]
          /\ inv' = [inv EXCEPT ![i].workspace = Append(TmpRoot, w), ![i].pc = "copy"]
    /\ UNCHANGED regvars

\* copy_skill_contents that hands back the skill directory itself.
CopyDestination_InPlace(workspace, source_dir) == source_dir

\* TemporaryWorkspace.copy_skill_contents: where the copy goes.
CopyDestination(workspace, source_dir) == Append(workspace, Name(source_dir))

\* copy_skill_contents and the resolution of the copied script.
Copy(i) ==
    /\ i \in DOMAIN inv
    /\ LoopFree(i)
    /\ inv[i].pc = "copy"
    /\ LET copied_path == CopyDestination(inv[i].workspace, inv[i].skill)
           rel_target == resolve_within(copied_path, inv[i].target)
       IN  /\ disk' = IF copied_path = inv[i].skill THEN disk
                      ELSE CopyTree(disk, inv[i].skill, copied_path)
           /\ inv' = [inv EXCEPT ![i] =
                    IF ~rel_target.ok
                    THEN Fail([@ EXCEPT !.copied_path = copied_path], rel_target.error)
                    ELSE [@ EXCEPT !.copied_path = copied_path,
                                   !.rel_target = rel_target.path, !.pc = "files"]]
    /\ UNCHANGED regvars

\* The additional input files.
WriteFiles(i) ==
    /\ i \in DOMAIN inv
    /\ LoopFree(i)
    /\ inv[i].pc = "files"
    /\ LET written == WriteEntries(disk, inv[i].copied_path, inv[i].payload.files)
       IN  /\ disk' = written.fs
           /\ inv' = [inv EXCEPT ![i] =
                    IF written.ok THEN [@ EXCEPT !.pc = "prepare"] ELSE Fail(@, written.error)]
    /\ UNCHANGED regvars

Prepare(i) ==
    /\ i \in DOMAIN inv
    /\ LoopFree(i)
    /\ inv[i].pc = "prepare"
    /\ LET prepared == PrepareCommand(disk, inv[i].copied_path, inv[i].rel_target,
                                      inv[i].payload)
       IN  inv' = [inv EXCEPT ![i] =
                IF ~prepared.ok THEN Fail(@, prepared.error)
                ELSE [@ EXCEPT !.workdir = prepared.workdir,
                               !.exec_command = prepared.exec_command, !.pc = "spawn"]]
    /\ UNCHANGED <<disk, regvars>>

\* asyncio.create_subprocess_exec
Spawn(i) ==
    /\ i \in DOMAIN inv
    /\ LoopFree(i)
    /\ inv[i].pc = "spawn"
    /\ inv' = [inv EXCEPT ![i] =
             IF CanSpawn(disk, inv[i].exec_command, inv[i].workdir)
             THEN [@ EXCEPT !.child = "running", !.spawned = @ + 1, !.pc = "wait"]
             ELSE Fail(@, [kind |-> "FileNotFoundError", about |-> "spawn"])]
    /\ UNCHANGED <<disk, regvars>>

\* The file a running script leaves in its working directory.
ChildOutput(workdir) == Append(workdir, "out.txt")

\* The child writes a file in its working directory.
ChildWrite(i) ==
    /\ i \in DOMAIN inv
    /\ inv[i].child = "running"
    /\ ~IsFile(disk, ChildOutput(inv[i].workdir))
    /\ disk' = WriteBytes(disk, ChildOutput(inv[i].workdir), "child")
    /\ UNCHANGED <<inv, regvars>>

\* The child ends by itself.
ChildExit(i) ==
    /\ i \in DOMAIN inv
    /\ inv[i].child = "running"
    /\ inv' = [inv EXCEPT ![i].child = "exited"]
    /\ UNCHANGED <<disk, regvars>>

\* wait_for(proc.communicate()) returns: the child is done and reaped.
Collect(i) ==
    /\ i \in DOMAIN inv
    /\ LoopFree(i)
    /\ inv[i].pc = "wait"
    /\ inv[i].child = "exited"
    /\ inv' = [inv EXCEPT ![i].child = "reaped", ![i].pc = "exit",
                          ![i].pending = [kind |-> "result",
                                          command |-> inv[i].exec_command,
                                          cwd |-> inv[i].workdir]]
    /\ UNCHANGED <<disk, regvars>>

\* wait_for without a bound: the wait ends only when the child does.
Timeout_Unbounded(i) ==
    /\ i \in DOMAIN inv
    /\ FALSE
    /\ UNCHANGED <<inv, disk, regvars>>

\* wait_for raises TimeoutError: the child has not finished in time.
Timeout(i) ==
    /\ i \in DOMAIN inv
    /\ LoopFree(i)
    /\ inv[i].pc = "wait"
    /\ inv[i].child = "running"
    /\ inv' = [inv EXCEPT ![i].pc = "kill"]
    /\ UNCHANGED <<disk, regvars>>

\* Kill without the await proc.wait() after it.
Kill_AndRaise(i) ==
    /\ i \in DOMAIN inv
    /\ LoopFree(i)
    /\ inv[i].pc = "kill"
    /\ inv' = [inv EXCEPT ![i].child = "killed", ![i].pc = "exit",
                          ![i].pending = [kind |-> "SkillExecutionError",
                                          about |-> "timeout",
                                          seconds |-> inv[i].timeout]]
    /\ UNCHANGED <<disk, regvars>>

\* proc.kill()
Kill(i) ==
    /\ i \in DOMAIN inv
    /\ LoopFree(i)
    /\ inv[i].pc = "kill"
    /\ inv' = [inv EXCEPT ![i].child = "killed", ![i].pc = "reap"]
    /\ UNCHANGED <<disk, regvars>>

\* Reap that starts the script again after a timeout instead of raising.
Reap_Retry(i) ==
    /\ i \in DOMAIN inv
    /\ LoopFree(i)
    /\ inv[i].pc = "reap"
    /\ inv[i].child = "killed"
    /\ inv' = [inv EXCEPT ![i].child = "reaped", ![i].pc = "spawn"]
    /\ UNCHANGED <<disk, regvars>>

\* await proc.wait() returns, then the SkillExecutionError is raised.
Reap(i) ==
    /\ i \in DOMAIN inv
    /\ LoopFree(i)
    /\ inv[i].pc = "reap"
    /\ inv[i].child = "killed"
    /\ inv' = [inv EXCEPT ![i].child = "reaped", ![i].pc = "exit",
                          ![i].pending = [kind |-> "SkillExecutionError",
                                          about |-> "timeout",
                                          seconds |-> inv[i].timeout]]
    /\ UNCHANGED <<disk, regvars>>

\* Exit with the cleanup after the body instead of in __exit__: an exception
\* skips it.
Exit_KeepOnError(i) ==
    /\ i \in DOMAIN inv
    /\ LoopFree(i)
    /\ inv[i].pc = "exit"
    /\ disk' = IF inv[i].pending.kind = "result" THEN RemoveTree(disk, inv[i].workspace)
               ELSE disk
    /\ inv' = [inv EXCEPT ![i] = Finish(@, @.pending)]
    /\ UNCHANGED regvars

\* TemporaryWorkspace.__exit__, then run_script returns or raises and
\* _skill_tool hands the outcome on.
Exit(i) ==
    /\ i \in DOMAIN inv
    /\ LoopFree(i)
    /\ inv[i].pc = "exit"
    /\ disk' = RemoveTree(disk, inv[i].workspace)
    /\ inv' = [inv EXCEPT ![i] = Finish(@, @.pending)]
    /\ UNCHANGED regvars

\* The caller has its answer; it may call again.
Return(i) ==
    /\ i \in DOMAIN inv
    /\ LoopFree(i)
    /\ inv[i].pc = "done"
    /\ inv' = [inv EXCEPT ![i] = IdleInvocation]
    /\ UNCHANGED <<disk, regvars>>

\* Get with a lookup that inserts what it does not find (dict.setdefault).
Get_Inserting(i, slug) ==
    /\ i \in DOMAIN inv
    /\ load_pc = "done"
    /\ inv[i].pc = "idle"
    /\ LoopFree(i)
    /\ inv' = [inv EXCEPT ![i] = Finish([@ EXCEPT !.target = slug],
                                         RegistryGet(skills_by_slug, slug))]
    /\ skills_by_slug' = IF DictHas(skills_by_slug, slug) THEN skills_by_slug
                         ELSE DictSet(skills_by_slug, slug,
                                      [slug |-> slug,
                                       directory |-> Append(SkillsRoot, "none"),
                                       instructions_path |->
                                           <<"/", "skills", "none", SKILL_MARKDOWN>>,
                                       metadata |-> [name |-> slug, description |-> <<>>],
                                       resources |-> <<<<SKILL_MARKDOWN>>>>])
    /\ UNCHANGED <<disk, skills_by_name, load_pc, load_todo>>

\* A caller asks the registry for one skill.
Get(i, slug) ==
    /\ i \in DOMAIN inv
    /\ load_pc = "done"
    /\ inv[i].pc = "idle"
    /\ LoopFree(i)
    /\ inv' = [inv EXCEPT ![i] = Finish([@ EXCEPT !.target = slug],
                                         RegistryGet(skills_by_slug, slug))]
    /\ UNCHANGED <<disk, regvars>>

\* A caller asks the registry for all skills.
Skills(i) ==
    /\ i \in DOMAIN inv
    /\ load_pc = "done"
    /\ inv[i].pc = "idle"
    /\ LoopFree(i)
    /\ inv' = [inv EXCEPT ![i] = Finish(@, RegistrySkills(skills_by_slug))]
    /\ UNCHANGED <<disk, regvars>>

\* _skill_tool(action="read"): the caller's answer is ready at once.
ToolRead(i, skill, target) ==
    /\ load_pc = "done"
    /\ inv[i].pc = "idle"
    /\ LoopFree(i)
    /\ LET rec == [inv[i] EXCEPT !.skill = skill.directory, !.target = target]
           resource_path == resolve_within(skill.directory, target)
           answer ==
             IF target = <<>> THEN [kind |-> "SkillError", about |-> "target"]
             ELSE IF ~resource_path.ok THEN resource_path.error
             ELSE IF ~Exists(disk, resource_path.path) \/ ~IsFile(disk, resource_path.path)
             THEN [kind |-> "SkillError", about |-> "not found"]
             ELSE [kind |-> "resource", path |-> resource_path.path,
                   content |-> disk.files[resource_path.path].text]
       IN  inv' = [inv EXCEPT ![i] = Finish(rec, answer)]
    /\ UNCHANGED <<disk, regvars>>

-----------------------------------------------------------------------------
(* The skills roots discovery is checked on. *)

ChildPath(i) == Append(SkillsRoot, DirNames[i])

\* What one entry of the root may be.
EntryKinds ==
    {[kind |-> "absent"], [kind |-> "file"], [kind |-> "dir"]}
    \cup {[kind |-> "skill", text |-> t] : t \in ManifestTexts}

DiskOf(entries) ==
    LET n == Len(entries)
        dirs == {ChildPath(i) : i \in {j \in 1..n : entries[j].kind \in {"dir", "skill"}}}
        plain == {ChildPath(i) : i \in {j \in 1..n : entries[j].kind = "file"}}
        manifests == {Append(ChildPath(i), SKILL_MARKDOWN) :
                         i \in {j \in 1..n : entries[j].kind = "skill"}}
    IN  [dirs |-> {<<"/">>, SkillsRoot} \cup dirs,
         files |-> [p \in plain \cup manifests |->
                      IF p \in plain THEN File("data", <<>>, FALSE)
                      ELSE File(entries[CHOOSE i \in 1..n : ChildPath(i) = SubSeq(p, 1, Len(p) - 1)].text,
                                <<>>, FALSE)]]

RootMissing == [dirs |-> {<<"/">>}, files |-> <<>>]
RootIsFile == [dirs |-> {<<"/">>}, files |-> [p \in {SkillsRoot} |-> File("data", <<>>, FALSE)]]

Init ==
    /\ disk \in {DiskOf(e) : e \in [1..MaxChildren -> EntryKinds]} \cup {RootMissing, RootIsFile}
    /\ skills_by_slug = <<>>
    /\ skills_by_name = <<>>
    /\ load_pc = "idle"
    /\ load_todo = <<>>
    /\ inv = [i \in {1} |-> IdleInvocation]

Next ==
    \/ LoadBegin
    \/ LoadChild
    \/ LoadEnd
    \/ \E slug \in QuerySlugs : Get(1, slug)
    \/ Skills(1)
    \/ Return(1)

vars == <<disk, skills_by_slug, skills_by_name, load_pc, load_todo, inv>>

Spec == Init /\ [][Next]_vars

-----------------------------------------------------------------------------
(* The server with two skills on disk, and the requests made of it. *)

GoodManifest(name) ==
    File(Manifest("block", Header(name, <<"d">>)), <<>>, FALSE)

Alpha == Append(SkillsRoot, "alpha")
Beta == Append(SkillsRoot, "beta")

RunDisk ==
    [dirs |-> {<<"/">>, SkillsRoot, TmpRoot, Alpha, Append(Alpha, "sub"), Beta},
     files |->
        (Append(Alpha, SKILL_MARKDOWN) :> GoodManifest(<<"A", " ", "b">>))
     @@ (Append(Alpha, "run.py") :> File("data", <<>>, FALSE))
     @@ (Append(Alpha, "tool") :> File("data", <<Launcher("sh")>>, FALSE))
     @@ (Append(Alpha, "ghost") :> File("data", <<Launcher("gone")>>, TRUE))
     @@ (Append(Alpha, "bin") :> File("data", <<>>, TRUE))
     @@ (Append(Alpha, "notes.md") :> File("data", <<>>, FALSE))
     @@ (Append(Alpha, "sub") \o <<"data.txt">> :> File("data", <<>>, FALSE))
     @@ (Append(Beta, SKILL_MARKDOWN) :> GoodManifest(<<"a", "b">>))
     @@ (Append(Beta, "run.py") :> File("data", <<>>, FALSE))]

\* Script targets: scripts of each kind, a plain file, a directory, a
\* missing file, no target, and paths that leave the bundle.
Targets ==
    { <<"run.py">>, <<"tool">>, <<"ghost">>, <<"bin">>, <<"notes.md">>, <<"sub">>,
      <<"nope.py">>, <<>>, <<"sub", "..", "run.py">>, <<"..", "beta", "run.py">>,
      <<"/", "skills", "alpha", "run.py">>, <<"..", "..", "tmp">> }

Entry(path, content, encoding) ==
    [type |-> "mapping", path |-> path, content |-> content, encoding |-> encoding]

FilesPayloads ==
    { <<>>,
      <<Entry(<<"in.txt">>, "text", "text")>>,
      <<Entry(<<"run.py">>, "b64", "base64")>>,
      <<Entry(<<"new", "in.txt">>, "text", "text"),
        Entry(<<"..", "..", "..", "skills", "alpha", "run.py">>, "text", "text")>>,
      <<Entry(<<"/", "skills", "alpha", "run.py">>, "text", "text")>>,
      <<Entry(<<"in.txt">>, "text", "text"), Entry(<<"x">>, "text", "hex")>>,
      <<Entry(<<"in.txt">>, "text", "base64")>>,
      <<Entry(<<>>, "text", "text")>>,
      <<Entry(<<"in.txt">>, "none", "text")>>,
      <<[type |-> "string"]>>,
      <<Entry(<<"sub">>, "text", "text")>> }

ArgsPayloads == {"list", "str", "number"}

StdinPayloads ==
    { [kind |-> "none"], [kind |-> "str"], [kind |-> "number"],
      [kind |-> "mapping", content |-> "b64", encoding |-> "base64"],
      [kind |-> "mapping", content |-> "text", encoding |-> "hex"] }

EnvPayloads == {"mapping", "list"}

WorkdirPayloads == { <<>>, <<"sub">>, <<"..", "..">>, <<"nodir">> }

PlainPayload ==
    [files |-> <<>>, args |-> "list", stdin |-> [kind |-> "none"], env |-> "mapping",
     workdir |-> <<>>]

\* In how many fields a payload differs from the plain one.
Deviations(payload) ==
    Cardinality({f \in DOMAIN PlainPayload : payload[f] # PlainPayload[f]})

MaxDeviations == 2

Payloads ==
    {payload \in [files : FilesPayloads, args : ArgsPayloads, stdin : StdinPayloads,
                  env : EnvPayloads, workdir : WorkdirPayloads] :
        Deviations(payload) <= MaxDeviations}

Timeouts == {5, DEFAULT_TIMEOUT}

RegisteredSkills == {skills_by_slug[k].value : k \in 1..Len(skills_by_slug)}

MaxCallers == 2
CallerIds == 1..MaxCallers

InitRun ==
    /\ disk = RunDisk
    /\ skills_by_slug = <<>>
    /\ skills_by_name = <<>>
    /\ load_pc = "idle"
    /\ load_todo = <<>>
    /\ inv = [i \in {1} |-> IdleInvocation]

\* run_script is called with any target and payload.
CallAny(i) ==
    /\ i \in DOMAIN inv
    /\ inv[i].pc = "idle"
    /\ \E payload \in Payloads, skill \in RegisteredSkills, target \in Targets,
          timeout \in Timeouts : Call(i, skill, target, payload, timeout)

ReadAny(i) ==
    /\ i \in DOMAIN inv
    /\ inv[i].pc = "idle"
    /\ \E skill \in RegisteredSkills, target \in Targets : ToolRead(i, skill, target)

NextRun ==
    \/ LoadBegin
    \/ LoadChild
    \/ LoadEnd
    \/ \E i \in CallerIds : CallAny(i)
    \/ \E i \in CallerIds : ReadAny(i)
    \/ \E i \in CallerIds : Enter(i)
    \/ \E i \in CallerIds : Copy(i)
    \/ \E i \in CallerIds : WriteFiles(i)
    \/ \E i \in CallerIds : Prepare(i)
    \/ \E i \in CallerIds : Spawn(i)
    \/ \E i \in CallerIds : ChildWrite(i)
    \/ \E i \in CallerIds : ChildExit(i)
    \/ \E i \in CallerIds : Collect(i)
    \/ \E i \in CallerIds : Timeout(i)
    \/ \E i \in CallerIds : Kill(i)
    \/ \E i \in CallerIds : Reap(i)
    \/ \E i \in CallerIds : Exit(i)
    \/ \E i \in CallerIds : Return(i)

SpecRun == InitRun /\ [][NextRun]_vars

-----------------------------------------------------------------------------
(* Several callers at once, each with one of a few requests. *)

ConcRequests ==
    { [target |-> <<"run.py">>,
       payload |-> [PlainPayload EXCEPT !.files = <<Entry(<<"in.txt">>, "text", "text")>>]],
      [target |-> <<"run.py">>, payload |-> [PlainPayload EXCEPT !.args = "str"]] }

ConcSlugs == {<<"a", "b">>, <<"n", "o">>}

CallSome(i) ==
    /\ i \in DOMAIN inv
    /\ inv[i].pc = "idle"
    /\ \E request \in ConcRequests, skill \in RegisteredSkills :
          Call(i, skill, request.target, request.payload, DEFAULT_TIMEOUT)

ReadSome(i) ==
    /\ i \in DOMAIN inv
    /\ inv[i].pc = "idle"
    /\ \E skill \in RegisteredSkills : ToolRead(i, skill, <<"run.py">>)

InitConc ==
    /\ disk = RunDisk
    /\ skills_by_slug = <<>>
    /\ skills_by_name = <<>>
    /\ load_pc = "idle"
    /\ load_todo = <<>>
    /\ inv = [i \in CallerIds |-> IdleInvocation]

NextConc ==
    \/ LoadBegin
    \/ LoadChild
    \/ LoadEnd
    \/ \E i \in CallerIds, slug \in ConcSlugs : Get(i, slug)
    \/ \E i \in CallerIds : Skills(i)
    \/ \E i \in CallerIds : CallSome(i)
    \/ \E i \in CallerIds : ReadSome(i)
    \/ \E i \in CallerIds : Enter(i)
    \/ \E i \in CallerIds : Copy(i)
    \/ \E i \in CallerIds : WriteFiles(i)
    \/ \E i \in CallerIds : Prepare(i)
    \/ \E i \in CallerIds : Spawn(i)
    \/ \E i \in CallerIds : ChildWrite(i)
    \/ \E i \in CallerIds : ChildExit(i)
    \/ \E i \in CallerIds : Collect(i)
    \/ \E i \in CallerIds : Timeout(i)
    \/ \E i \in CallerIds : Kill(i)
    \/ \E i \in CallerIds : Reap(i)
    \/ \E i \in CallerIds : Exit(i)
    \/ \E i \in CallerIds : Return(i)

SpecConc == InitConc /\ [][NextConc]_vars

-----------------------------------------------------------------------------
(* Resource addressing. A URI is a sequence of tokens: the scheme and      *)
(* namespace prefix first, then characters; a run of unreserved            *)
(* characters that names a file ("run.py", "..") is one token.             *)

UriPrefix == "resource://skillz/"
OtherPrefix == "file://"
Separator == "/"

\* How many segments a resource path has at most.
MaxSegments == 2

\* urllib.parse.quote(part, safe=""): the characters it escapes, each with
\* the hexadecimal form of its UTF-8 bytes ("u00e9" is the letter e-acute).
Escapes ==
    (" " :> <<"%", "2", "0">>) @@ ("%" :> <<"%", "2", "5">>)
    @@ ("?" :> <<"%", "3", "F">>) @@ ("#" :> <<"%", "2", "3">>)
    @@ ("/" :> <<"%", "2", "F">>) @@ ("u00e9" :> <<"%", "C", "3", "%", "A", "9">>)

\* quote that takes '%' for safe.
RECURSIVE quote_PercentSafe(_)
quote_PercentSafe(part) ==
    IF part = <<>> THEN <<>>
    ELSE (IF Head(part) \in DOMAIN Escapes \ {"%"} THEN Escapes[Head(part)]
          ELSE <<Head(part)>>) \o quote_PercentSafe(Tail(part))

RECURSIVE quote(_)
quote(part) ==
    IF part = <<>> THEN <<>>
    ELSE (IF Head(part) \in DOMAIN Escapes THEN Escapes[Head(part)] ELSE <<Head(part)>>)
         \o quote(Tail(part))

\* urllib.parse.unquote: every escape becomes its character, the rest stays.
RECURSIVE unquote(_)
unquote(s) ==
    IF s = <<>> THEN <<>>
    ELSE LET hit == {c \in DOMAIN Escapes : IsPrefix(Escapes[c], s)}
         IN  IF hit # {}
             THEN LET c == CHOOSE c \in hit : TRUE
                  IN  <<c>> \o unquote(SubSeq(s, Len(Escapes[c]) + 1, Len(s)))
             ELSE <<Head(s)>> \o unquote(Tail(s))

\* "/".join(parts)
RECURSIVE JoinParts(_)
JoinParts(parts) ==
    IF parts = <<>> THEN <<>>
    ELSE IF Len(parts) = 1 THEN parts[1]
    ELSE parts[1] \o <<Separator>> \o JoinParts(Tail(parts))

\* str.split("/")
RECURSIVE Split(_)
Split(s) ==
    IF \A k \in 1..Len(s) : s[k] # Separator THEN <<s>>
    ELSE LET k == CHOOSE k \in 1..Len(s) :
                      s[k] = Separator /\ \A j \in 1..(k - 1) : s[j] # Separator
         IN  <<SubSeq(s, 1, k - 1)>> \o Split(SubSeq(s, k + 1, Len(s)))

\* The URI of a resource: the quoted slug, then the quoted segments.
build_uri(slug, path) ==
    LET encoded_slug == quote(slug)
        encoded_parts == [k \in 1..Len(path) |-> quote(path[k])]
        suffix == JoinParts(encoded_parts)
    IN  IF suffix # <<>> THEN <<UriPrefix>> \o encoded_slug \o <<Separator>> \o suffix
        ELSE <<UriPrefix>> \o encoded_slug

\* The file name a decoded segment spells: a segment of one token is that
\* name, any other spelling is a name no bundle of the model holds.
SegName(segment) == IF Len(segment) = 1 THEN segment[1] ELSE "(other)"

Miss(cause) == [ok |-> FALSE, error |-> [kind |-> "miss", cause |-> cause]]

\* resolve_uri that looks for the slug before it looks at the prefix.
resolve_uri_SlugFirst(by_slug, uri) ==
    IF uri = <<>> THEN Miss("empty")
    ELSE LET parts == Split(Tail(uri))
             slug == unquote(parts[1])
             path == [k \in 1..(Len(parts) - 1) |-> unquote(parts[k + 1])]
         IN  IF slug = <<>> THEN Miss("invalid_format")
             ELSE IF ~DictHas(by_slug, slug) THEN Miss("skill_not_found")
             ELSE IF Head(uri) # UriPrefix THEN Miss("unsupported_prefix")
             ELSE LET names == [k \in 1..Len(path) |-> SegName(path[k])]
                      within == resolve_within(DictGet(by_slug, slug).directory, names)
                  IN  IF ~within.ok THEN Miss("path_traversal")
                      ELSE [ok |-> TRUE, slug |-> slug, path |-> path,
                            location |-> within.path]

\* resolve_uri: the slug and the path a URI names, or the structured miss.
resolve_uri(by_slug, uri) ==
    IF uri = <<>> THEN Miss("empty")
    ELSE IF Head(uri) # UriPrefix THEN Miss("unsupported_prefix")
    ELSE LET parts == Split(Tail(uri))
             slug == unquote(parts[1])
             path == [k \in 1..(Len(parts) - 1) |-> unquote(parts[k + 1])]
         IN  IF slug = <<>> THEN Miss("invalid_format")
             ELSE IF ~DictHas(by_slug, slug) THEN Miss("skill_not_found")
             ELSE LET names == [k \in 1..Len(path) |-> SegName(path[k])]
                      within == resolve_within(DictGet(by_slug, slug).directory, names)
                  IN  IF ~within.ok THEN Miss("path_traversal")
                      ELSE [ok |-> TRUE, slug |-> slug, path |-> path,
                            location |-> within.path]

\* read_resource / the fetch_resource tool: the content, or the error
\* payload of the miss.
fetch_resource(fs, by_slug, uri) ==
    LET resolved == resolve_uri(by_slug, uri)
    IN  IF ~resolved.ok
        THEN [kind |-> "payload", uri |-> uri, encoding |-> "utf-8",
              content |-> <<"Error:", resolved.error.cause>>]
        ELSE IF ~IsFile(fs, resolved.location)
        THEN [kind |-> "payload", uri |-> uri, encoding |-> "utf-8",
              content |-> <<"Error:", "resource_not_found">>]
        ELSE [kind |-> "payload", uri |-> uri, encoding |-> "utf-8",
              content |-> <<fs.files[resolved.location].text>>]

\* The segments resource paths are made of: plain names, a space inside a
\* name, a literal escape, non-ASCII and reserved characters.
UriSegments ==
    { <<"run.py">>, <<"sub">>, <<"data.txt">>, <<"a", " ", "b">>, <<"%", "2", "0">>,
      <<"u00e9">>, <<"?">>, <<"#", "a">>, <<"%">>, <<"2", "5">> }

UriPaths == UNION {[1..n -> UriSegments] : n \in 0..MaxSegments}

RegisteredSlugs == DictKeys(skills_by_slug)

\* The URIs a caller may ask for besides the built ones: none, another
\* scheme, no slug, an unknown skill, a missing file, a directory, paths
\* that leave the bundle, and files that exist.
A_B == <<"a", "-", "b">>
LookupUris ==
    { <<>>,
      <<OtherPrefix, "/", "etc", "/", "passwd">>,
      <<OtherPrefix, "a", "-", "b", "/", "run.py">>,
      <<OtherPrefix>>,
      <<UriPrefix>>,
      <<UriPrefix, "/", "run.py">>,
      <<UriPrefix, "n", "o", "/", "run.py">>,
      <<UriPrefix, "n", "o", "/", "..", "/", "..", "/", "etc">>,
      <<UriPrefix>> \o A_B,
      <<UriPrefix>> \o A_B \o <<"/", "run.py">>,
      <<UriPrefix>> \o A_B \o <<"/", "sub", "/", "data.txt">>,
      <<UriPrefix>> \o A_B \o <<"/", "sub">>,
      <<UriPrefix>> \o A_B \o <<"/", "nope.py">>,
      <<UriPrefix>> \o A_B \o <<"/", "a", "%", "2", "0", "b">>,
      <<UriPrefix>> \o A_B \o <<"/", "sub", "/", "..", "/", "run.py">>,
      <<UriPrefix>> \o A_B \o <<"/", "..", "/", "beta", "/", "run.py">>,
      <<UriPrefix>> \o A_B \o <<"/", "..", "/", "..", "/", "..", "/", "etc", "/", "passwd">>,
      <<UriPrefix>> \o A_B \o <<"/", "%", "2", "F", "etc">>,
      <<UriPrefix, "a", "b", "/", "run.py">> }

\* A URI is built for a registered skill and a path.
BuildUri(i) ==
    /\ i \in DOMAIN inv
    /\ load_pc = "done"
    /\ inv[i].pc = "idle"
    /\ \E path \in UriPaths, slug \in RegisteredSlugs :
          inv' = [inv EXCEPT ![i].pc = "built",
                             ![i].payload = [kind |-> "uri", slug |-> slug, path |-> path],
                             ![i].pending = [kind |-> "uri", uri |-> build_uri(slug, path)]]
    /\ UNCHANGED <<disk, regvars>>

\* The built URI is resolved.
ResolveBuilt(i) ==
    /\ i \in DOMAIN inv
    /\ inv[i].pc = "built"
    /\ inv' = [inv EXCEPT ![i] =
             Finish(@, [kind |-> "resolved",
                        value |-> resolve_uri(skills_by_slug, @.pending.uri)])]
    /\ UNCHANGED <<disk, regvars>>

\* The built URI is read.
FetchBuilt(i) ==
    /\ i \in DOMAIN inv
    /\ inv[i].pc = "built"
    /\ inv' = [inv EXCEPT ![i] =
             Finish(@, fetch_resource(disk, skills_by_slug, @.pending.uri))]
    /\ UNCHANGED <<disk, regvars>>

\* A caller reads the resource of a URI of its own.
FetchAny(i) ==
    /\ i \in DOMAIN inv
    /\ load_pc = "done"
    /\ inv[i].pc = "idle"
    /\ \E uri \in LookupUris :
          inv' = [inv EXCEPT ![i] =
                   Finish([@ EXCEPT !.payload = [kind |-> "lookup", uri |-> uri]],
                          fetch_resource(disk, skills_by_slug, uri))]
    /\ UNCHANGED <<disk, regvars>>

NextUri ==
    \/ LoadBegin
    \/ LoadChild
    \/ LoadEnd
    \/ \E i \in CallerIds : BuildUri(i)
    \/ \E i \in CallerIds : ResolveBuilt(i)
    \/ \E i \in CallerIds : FetchBuilt(i)
    \/ \E i \in CallerIds : FetchAny(i)
    \/ \E i \in CallerIds : Return(i)

SpecUri == InitRun /\ [][NextUri]_vars

-----------------------------------------------------------------------------
(* The manifests parse_skill_md is checked on. *)

Absent == [type |-> "absent"]

NameValues ==
    { Absent, YStr(<<"a", "b">>), YStr(<<" ", "a", "b", " ">>), YStr(<<" ">>), YStr(<<>>),
      YNull, YInt(0), YInt(5), YBool(FALSE), YSeq(<<>>) }

DescriptionValues == { Absent, YStr(<<"d">>), YStr(<<" ">>), YNull }

LicenseValues == { Absent, YStr(<<" ", "l">>) }

\* allowed-tools: a comma-joined string with blank parts, an empty string,
\* sequences, a mapping, numbers and a boolean.
AllowedValues ==
    { Absent,
      YStr(<<"a", ",", " ", "b", ",", ",", " ">>),
      YStr(<<>>),
      YSeq(<<YStr(<<"a">>), YStr(<<" ">>), YInt(5)>>),
      YSeq(<<>>),
      YMap(<<[key |-> "x", value |-> YInt(1)]>>),
      YInt(5), YInt(0), YBool(TRUE) }

UnderscoredValues == { Absent, YStr(<<"b">>) }

OtherEntries ==
    { <<>>,
      <<[key |-> "x", value |-> YInt(5)]>>,
      <<[key |-> "x", value |-> YSeq(<<YStr(<<"a">>)>>)], [key |-> "y", value |-> YNull]>> }

Optional(key, value) ==
    IF value = Absent THEN <<>> ELSE <<[key |-> key, value |-> value]>>

ParseTexts ==
    { Manifest("block",
               YMap(Optional("name", n) \o other \o Optional("description", d)
                    \o Optional("license", l) \o Optional("allowed-tools", a)
                    \o Optional("allowed_tools", u))) :
        n \in NameValues, d \in DescriptionValues, l \in LicenseValues,
        a \in AllowedValues, u \in UnderscoredValues, other \in OtherEntries }
    \cup
    { Manifest("none", Header(<<"a", "b">>, <<"d">>)),
      Manifest("block", YSeq(<<YStr(<<"a">>)>>)),
      Manifest("block", YSeq(<<>>)),
      Manifest("block", YNull),
      Manifest("block", YStr(<<"a">>)),
      Manifest("block", YInt(5)),
      Manifest("block", YInvalid) }

\* parse_skill_md is called on a manifest.
ParseAny(i) ==
    /\ i \in DOMAIN inv
    /\ inv[i].pc = "idle"
    /\ \E text \in ParseTexts :
          inv' = [inv EXCEPT ![i] =
                   Finish([@ EXCEPT !.payload = [kind |-> "parse", text |-> text]],
                          [kind |-> "parsed", value |-> parse_skill_md(text)])]
    /\ UNCHANGED <<disk, regvars>>

NextParse ==
    \/ \E i \in CallerIds : ParseAny(i)
    \/ \E i \in CallerIds : Return(i)

SpecParse == InitRun /\ [][NextParse]_vars

-----------------------------------------------------------------------------
(* The names slugify is checked on. *)

\* How long a name is at most.
MaxNameLen == 3

\* Letters of both cases, a digit, a blank, separators, a non-ASCII letter
\* and the Kelvin sign.
NameChars == {"a", "B", "1", " ", "-", "_", "u00e9", "u212a"}

SlugNames == UNION {[1..n -> NameChars] : n \in 0..MaxNameLen}

\* slugify(name)
SlugifyAny(i) ==
    /\ i \in DOMAIN inv
    /\ inv[i].pc = "idle"
    /\ \E name \in SlugNames :
          inv' = [inv EXCEPT ![i].pc = "slugged",
                             ![i].payload = [kind |-> "slugify", name |-> name],
                             ![i].pending = [kind |-> "slug", value |-> slugify(name)]]
    /\ UNCHANGED <<disk, regvars>>

\* slugify(slugify(name))
SlugifyAgain(i) ==
    /\ i \in DOMAIN inv
    /\ inv[i].pc = "slugged"
    /\ inv' = [inv EXCEPT ![i] =
             Finish(@, [kind |-> "slug", first |-> @.pending.value,
                        again |-> slugify(@.pending.value)])]
    /\ UNCHANGED <<disk, regvars>>

NextSlug ==
    \/ \E i \in CallerIds : SlugifyAny(i)
    \/ \E i \in CallerIds : SlugifyAgain(i)
    \/ \E i \in CallerIds : Return(i)

SpecSlug == InitRun /\ [][NextSlug]_vars

-----------------------------------------------------------------------------
(* The environment run_script gives the child. *)

\* The host variables forwarded when the host defines them.
ForwardedKeys == <<"LANG", "LC_ALL", "PYTHONPATH">>

RECURSIVE Forward(_, _, _)
Forward(env, environ, k) ==
    IF k > Len(ForwardedKeys) THEN env
    ELSE Forward(IF DictHas(environ, ForwardedKeys[k])
                 THEN DictSet(env, ForwardedKeys[k], DictGet(environ, ForwardedKeys[k]))
                 ELSE env,
                 environ, k + 1)

RECURSIVE Override(_, _, _)
Override(env, env_payload, k) ==
    IF k > Len(env_payload) THEN env
    ELSE Override(DictSet(env, env_payload[k].key, PyStr(env_payload[k].value)),
                  env_payload, k + 1)

\* The whole host environment with the caller's entries on top.
BuildEnv_Inherit(environ, env_payload) ==
    Override(environ, env_payload, 1)

\* env of run_script, as create_subprocess_exec gets it: every value is a
\* string, so the isinstance filter of the call keeps every entry.
BuildEnv(environ, env_payload) ==
    Override(Forward(<<[key |-> "PATH", value |-> GetOr(environ, "PATH", <<>>)]>>,
                     environ, 1),
             env_payload, 1)

\* One entry of os.environ, or none.
Defined(key, values) ==
    {<<>>} \cup {<<[key |-> key, value |-> v]>> : v \in values}

\* os.environ
Environs ==
    { secret \o path \o lang \o lc_all \o pythonpath \o home :
        secret \in Defined("SECRET", {<<"s">>, <<"t">>}),
        path \in Defined("PATH", {<<"h">>, <<>>}),
        lang \in Defined("LANG", {<<"h">>}),
        lc_all \in Defined("LC_ALL", {<<"h">>}),
        pythonpath \in Defined("PYTHONPATH", {<<"h">>}),
        home \in Defined("HOME", {<<"h">>}) }

\* The env mapping of the payload.
EnvMappings ==
    { <<>>,
      <<[key |-> "PATH", value |-> YStr(<<"c">>)]>>,
      <<[key |-> "LANG", value |-> YStr(<<"c">>)]>>,
      <<[key |-> "SECRET", value |-> YStr(<<"c">>)]>>,
      <<[key |-> "FOO", value |-> YInt(5)]>>,
      <<[key |-> "FOO", value |-> YStr(<<"c">>)], [key |-> "PATH", value |-> YNull]>>,
      <<[key |-> "PYTHONPATH", value |-> YStr(<<>>)], [key |-> "HOME", value |-> YBool(TRUE)]>> }

\* run_script builds the child's environment on a host.
BuildEnvAny(i) ==
    /\ i \in DOMAIN inv
    /\ inv[i].pc = "idle"
    /\ \E environ \in Environs, env_payload \in EnvMappings :
          inv' = [inv EXCEPT ![i] =
                   Finish([@ EXCEPT !.payload = [kind |-> "env", environ |-> environ,
                                                 env |-> env_payload]],
                          [kind |-> "env", value |-> BuildEnv(environ, env_payload)])]
    /\ UNCHANGED <<disk, regvars>>

NextEnv ==
    \/ \E i \in CallerIds : BuildEnvAny(i)
    \/ \E i \in CallerIds : Return(i)

SpecEnv == InitRun /\ [][NextEnv]_vars

-----------------------------------------------------------------------------
(* Discovery over directories and archives. The registry that reads         *)
(* archives is described by sections 4.1 and 4.3 of the specification: load *)
(* lists the root's children in sorted order; a directory with a manifest   *)
(* and an archive file with a manifest are candidates alike.                *)

\* The extensions that mark an archive.
ArchiveSuffixes == {".zip", ".skill"}

\* The names of the root's entries, in sorted order, and their extensions.
EntryNames == <<"a.zip", "b", "b.skill", "c">>
EntrySuffix(name) ==
    CASE name \in {"a.zip", "nested.zip"} -> ".zip"
      [] name = "b.skill" -> ".skill"
      [] OTHER -> ""

EntryRank(name) == CHOOSE k \in 1..Len(EntryNames) : EntryNames[k] = name

\* sorted(root.iterdir())
RECURSIVE SortedEntries(_)
SortedEntries(paths) ==
    IF paths = {} THEN <<>>
    ELSE LET first == CHOOSE p \in paths :
                          \A q \in paths : EntryRank(p[Len(p)]) <= EntryRank(q[Len(q)])
         IN  <<first>> \o SortedEntries(paths \ {first})

\* An archive file: the files it holds, by their path in it.
ZipFile(members) == [text |-> "zip", shebang |-> <<>>, x |-> FALSE, members |-> members]

\* zipfile.is_zipfile: a file that is not an archive has no members.
IsZipFile(fs, p) == IsFile(fs, p) /\ "members" \in DOMAIN fs.files[p]

\* The resources of an archive: its files but the manifest, sorted.
ZipResources(members) ==
    SortedPaths(DOMAIN members \ {<<SKILL_MARKDOWN>>})

\* LoadEntryStep that lets a directory take the slug an archive holds.
LoadEntryStep_DirectoryWins(fs, by_slug, by_name, child) ==
    LET skip == [by_slug |-> by_slug, by_name |-> by_name, raised |-> FALSE]
    IN  IF IsDir(fs, child)
        THEN LET without == SelectSeq(by_slug, LAMBDA e : ~IsZipFile(fs, e.value.directory))
                 names == SelectSeq(by_name, LAMBDA e : ~IsZipFile(fs, e.value.directory))
                 after == LoadChildStep(fs, without, names, child)
             IN  IF Len(after.by_slug) > Len(without) THEN after
                 ELSE LoadChildStep(fs, by_slug, by_name, child)
        ELSE IF ~(IsFile(fs, child) /\ EntrySuffix(Name(child)) \in ArchiveSuffixes) THEN skip
        ELSE IF ~IsZipFile(fs, child) THEN skip
        ELSE IF <<SKILL_MARKDOWN>> \notin DOMAIN fs.files[child].members THEN skip
        ELSE LET parsed == parse_skill_md(fs.files[child].members[<<SKILL_MARKDOWN>>].text)
             IN  IF ~parsed.ok THEN skip
                 ELSE LET slug == slugify(parsed.metadata.name)
                          skill == [slug |-> slug,
                                    directory |-> child,
                                    instructions_path |-> Append(child, SKILL_MARKDOWN),
                                    metadata |-> parsed.metadata,
                                    resources |-> ZipResources(fs.files[child].members)]
                      IN  IF DictHas(by_slug, slug) THEN skip
                          ELSE IF DictHas(by_name, parsed.metadata.name) THEN skip
                          ELSE [by_slug |-> DictSet(by_slug, slug, skill),
                                by_name |-> DictSet(by_name, parsed.metadata.name, skill),
                                raised |-> FALSE]

\* One pass of the loop of load over a child of the root: a directory is
\* handled as LoadChildStep handles it, an archive file with a manifest at
\* its root goes through the same two duplicate checks, anything else (a
\* plain file, a file that is no archive, an archive with no manifest or an
\* invalid one) is skipped.
LoadEntryStep(fs, by_slug, by_name, child) ==
    LET skip == [by_slug |-> by_slug, by_name |-> by_name, raised |-> FALSE]
    IN  IF IsDir(fs, child) THEN LoadChildStep(fs, by_slug, by_name, child)
        ELSE IF ~(IsFile(fs, child) /\ EntrySuffix(Name(child)) \in ArchiveSuffixes) THEN skip
        ELSE IF ~IsZipFile(fs, child) THEN skip
        ELSE IF <<SKILL_MARKDOWN>> \notin DOMAIN fs.files[child].members THEN skip
        ELSE LET parsed == parse_skill_md(fs.files[child].members[<<SKILL_MARKDOWN>>].text)
             IN  IF ~parsed.ok THEN skip
                 ELSE LET slug == slugify(parsed.metadata.name)
                          skill == [slug |-> slug,
                                    directory |-> child,
                                    instructions_path |-> Append(child, SKILL_MARKDOWN),
                                    metadata |-> parsed.metadata,
                                    resources |-> ZipResources(fs.files[child].members)]
                      IN  IF DictHas(by_slug, slug) THEN skip
                          ELSE IF DictHas(by_name, parsed.metadata.name) THEN skip
                          ELSE [by_slug |-> DictSet(by_slug, slug, skill),
                                by_name |-> DictSet(by_name, parsed.metadata.name, skill),
                                raised |-> FALSE]

\* The listing that also takes what lies inside the root's directories.
EntriesOf_Deep(fs) ==
    SortedEntries(IterDir(fs, SkillsRoot))
    \o SelectSeq([k \in 1..Len(EntryNames) |->
                       Append(Append(SkillsRoot, EntryNames[k]), "nested.zip")],
                 LAMBDA p : IsFile(fs, p))

\* The candidates load looks at: the children of the root, sorted.
EntriesOf(fs) == SortedEntries(IterDir(fs, SkillsRoot))

\* load(): the root check, then the sorted listing.
LoadEntriesBegin ==
    /\ load_pc = "idle"
    /\ IF ~Exists(disk, SkillsRoot) \/ ~IsDir(disk, SkillsRoot)
       THEN /\ load_pc' = "raised"
            /\ load_todo' = <<>>
       ELSE /\ load_pc' = "iterating"
            /\ load_todo' = EntriesOf(disk)
    /\ UNCHANGED <<disk, skills_by_slug, skills_by_name, inv>>

LoadEntry ==
    /\ load_pc = "iterating"
    /\ load_todo # <<>>
    /\ LET after == LoadEntryStep(disk, skills_by_slug, skills_by_name, Head(load_todo))
       IN  /\ skills_by_slug' = after.by_slug
           /\ skills_by_name' = after.by_name
           /\ load_pc' = IF after.raised THEN "raised" ELSE load_pc
           /\ load_todo' = IF after.raised THEN <<>> ELSE Tail(load_todo)
    /\ UNCHANGED <<disk, inv>>

\* The manifests of the bundles: two display names of one slug, a third
\* name, and a manifest that is not valid.
BundleManifests ==
    { GoodManifest(<<"A", "b">>), GoodManifest(<<"a", "b">>), GoodManifest(<<"b">>),
      File(Manifest("none", Header(<<"a", "b">>, <<"d">>)), <<>>, FALSE) }

NestedArchive ==
    ZipFile((<<SKILL_MARKDOWN>> :> GoodManifest(<<"n", "e", "s", "t", "e", "d">>)))

\* What a child of the root may be: nothing, a directory without or with a
\* manifest, with an archive inside or not; a file that is no archive, an
\* archive without or with a manifest.
DirEntryKinds ==
    {[kind |-> "absent"], [kind |-> "dir"]}
    \cup {[kind |-> "skill", manifest |-> m, nested |-> n] :
             m \in BundleManifests, n \in BOOLEAN}

FileEntryKinds ==
    {[kind |-> "absent"], [kind |-> "file"], [kind |-> "zip", members |-> <<>>]}
    \cup {[kind |-> "zip",
           members |-> (<<SKILL_MARKDOWN>> :> m) @@ (<<"run.py">> :> File("data", <<>>, FALSE))] :
             m \in BundleManifests}

EntryPath(k) == Append(SkillsRoot, EntryNames[k])

ArchiveDiskOf(entries) ==
    LET ks == 1..Len(EntryNames)
        dirs == {EntryPath(k) : k \in {j \in ks : entries[j].kind \in {"dir", "skill"}}}
        skills == {k \in ks : entries[k].kind = "skill"}
        plain == {k \in ks : entries[k].kind = "file"}
        zips == {k \in ks : entries[k].kind = "zip"}
        manifests == [p \in {Append(EntryPath(k), SKILL_MARKDOWN) : k \in skills} |->
                        entries[CHOOSE k \in skills : EntryPath(k) = Parent(p)].manifest]
        nested == [p \in {Append(EntryPath(k), "nested.zip") :
                             k \in {j \in skills : entries[j].nested}} |-> NestedArchive]
        files == [p \in {EntryPath(k) : k \in plain} |-> File("data", <<>>, FALSE)]
        archives == [p \in {EntryPath(k) : k \in zips} |->
                        ZipFile(entries[CHOOSE k \in zips : EntryPath(k) = p].members)]
    IN  [dirs |-> {<<"/">>, SkillsRoot} \cup dirs,
         files |-> manifests @@ nested @@ files @@ archives]

ArchiveDisks ==
    {ArchiveDiskOf(e) :
        e \in {f \in [1..Len(EntryNames) -> DirEntryKinds \cup FileEntryKinds] :
                 \A k \in 1..Len(EntryNames) :
                    f[k] \in (IF EntrySuffix(EntryNames[k]) \in ArchiveSuffixes
                              THEN FileEntryKinds ELSE DirEntryKinds)}}

InitArchive ==
    /\ disk \in ArchiveDisks
    /\ skills_by_slug = <<>>
    /\ skills_by_name = <<>>
    /\ load_pc = "idle"
    /\ load_todo = <<>>
    /\ inv = [i \in {1} |-> IdleInvocation]

NextArchive ==
    \/ LoadEntriesBegin
    \/ LoadEntry
    \/ LoadEnd
    \/ Skills(1)
    \/ Return(1)

SpecArchive == InitArchive /\ [][NextArchive]_vars

-----------------------------------------------------------------------------
(* Output encoding. Bytes are numbers below 256, a text is the sequence of  *)
(* its code points, base64 text the sequence of its digits (0..63) and of   *)
(* the padding sign.                                                        *)

\* How many bytes a stream holds at most.
MaxBytes == 3

\* An ASCII letter, the two bytes of U+00E9 and a byte no UTF-8 text holds.
ByteValues == {65, 195, 169, 255}

ByteStrings == UNION {[1..n -> ByteValues] : n \in 0..MaxBytes}

\* bytes.decode("utf-8"), strict: the text, or UnicodeDecodeError.
RECURSIVE utf8_decode(_)
utf8_decode(data) ==
    IF data = <<>> THEN [ok |-> TRUE, text |-> <<>>]
    ELSE IF Head(data) < 128
    THEN LET rest == utf8_decode(Tail(data))
         IN  IF rest.ok THEN [ok |-> TRUE, text |-> <<Head(data)>> \o rest.text] ELSE rest
    ELSE IF Head(data) >= 194 /\ Head(data) < 224 /\ Len(data) >= 2
            /\ data[2] >= 128 /\ data[2] < 192
    THEN LET rest == utf8_decode(Tail(Tail(data)))
         IN  IF rest.ok
             THEN [ok |-> TRUE,
                   text |-> <<(Head(data) - 192) * 64 + (data[2] - 128)>> \o rest.text]
             ELSE rest
    ELSE [ok |-> FALSE, text |-> <<>>]

\* bytes.decode("utf-8", errors="replace"): U+FFFD for what is no UTF-8.
RECURSIVE utf8_decode_Replace(_)
utf8_decode_Replace(data) ==
    IF data = <<>> THEN [ok |-> TRUE, text |-> <<>>]
    ELSE IF Head(data) < 128
    THEN [ok |-> TRUE, text |-> <<Head(data)>> \o utf8_decode_Replace(Tail(data)).text]
    ELSE IF Head(data) >= 194 /\ Head(data) < 224 /\ Len(data) >= 2
            /\ data[2] >= 128 /\ data[2] < 192
    THEN [ok |-> TRUE,
          text |-> <<(Head(data) - 192) * 64 + (data[2] - 128)>>
                   \o utf8_decode_Replace(Tail(Tail(data))).text]
    ELSE [ok |-> TRUE, text |-> <<65533>> \o utf8_decode_Replace(Tail(data)).text]

\* str.encode("utf-8")
RECURSIVE utf8_encode(_)
utf8_encode(text) ==
    IF text = <<>> THEN <<>>
    ELSE (IF Head(text) < 128 THEN <<Head(text)>>
          ELSE IF Head(text) < 2048
          THEN <<192 + (Head(text) \div 64), 128 + (Head(text) % 64)>>
          ELSE <<224 + (Head(text) \div 4096), 128 + ((Head(text) \div 64) % 64),
                 128 + (Head(text) % 64)>>)
         \o utf8_encode(Tail(text))

\* The padding sign "=" of base64.
Pad == 64

\* base64.b64encode: three bytes give four digits, a rest of one or two
\* bytes gives two or three digits and padding.
RECURSIVE b64encode(_)
b64encode(data) ==
    IF data = <<>> THEN <<>>
    ELSE IF Len(data) = 1
    THEN <<data[1] \div 4, (data[1] % 4) * 16, Pad, Pad>>
    ELSE IF Len(data) = 2
    THEN <<data[1] \div 4, (data[1] % 4) * 16 + (data[2] \div 16), (data[2] % 16) * 4, Pad>>
    ELSE <<data[1] \div 4, (data[1] % 4) * 16 + (data[2] \div 16),
           (data[2] % 16) * 4 + (data[3] \div 64), data[3] % 64>>
         \o b64encode(SubSeq(data, 4, Len(data)))

\* base64.b64decode of padded groups of four.
RECURSIVE b64decode(_)
b64decode(content) ==
    IF Len(content) < 4 THEN <<>>
    ELSE (IF content[3] = Pad
          THEN <<content[1] * 4 + (content[2] \div 16)>>
          ELSE IF content[4] = Pad
          THEN <<content[1] * 4 + (content[2] \div 16),
                 (content[2] % 16) * 16 + (content[3] \div 4)>>
          ELSE <<content[1] * 4 + (content[2] \div 16),
                 (content[2] % 16) * 16 + (content[3] \div 4),
                 (content[3] % 4) * 64 + content[4]>>)
         \o b64decode(SubSeq(content, 5, Len(content)))

\* decode_payload_content on the content itself.
decode_payload_bytes(content, encoding) ==
    IF encoding = "text" THEN [ok |-> TRUE, bytes |-> utf8_encode(content)]
    ELSE IF encoding = "base64" THEN [ok |-> TRUE, bytes |-> b64decode(content)]
    ELSE [ok |-> FALSE, bytes |-> <<>>]

\* encode_output that never falls back to base64.
encode_output_Replace(data) ==
    [encoding |-> "text", content |-> utf8_decode_Replace(data).text]

encode_output(data) ==
    LET decoded == utf8_decode(data)
    IN  IF decoded.ok THEN [encoding |-> "text", content |-> decoded.text]
        ELSE [encoding |-> "base64", content |-> b64encode(data)]

\* run_script encodes what the child wrote to stdout and to stderr.
EncodeOutputs(i) ==
    /\ i \in DOMAIN inv
    /\ inv[i].pc = "idle"
    /\ \E stdout_data \in ByteStrings, stderr_data \in ByteStrings :
          inv' = [inv EXCEPT ![i].pc = "encoded",
                             ![i].payload = [kind |-> "streams", stdout |-> stdout_data,
                                             stderr |-> stderr_data],
                             ![i].pending = [kind |-> "result",
                                             stdout |-> encode_output(stdout_data),
                                             stderr |-> encode_output(stderr_data)]]
    /\ UNCHANGED <<disk, regvars>>

\* The caller decodes each stream by its tag.
DecodeOutputs(i) ==
    /\ i \in DOMAIN inv
    /\ inv[i].pc = "encoded"
    /\ inv' = [inv EXCEPT ![i] =
             Finish(@, [kind |-> "decoded", result |-> @.pending,
                        stdout |-> decode_payload_bytes(@.pending.stdout.content,
                                                        @.pending.stdout.encoding),
                        stderr |-> decode_payload_bytes(@.pending.stderr.content,
                                                        @.pending.stderr.encoding)])]
    /\ UNCHANGED <<disk, regvars>>

NextEncode ==
    \/ \E i \in CallerIds : EncodeOutputs(i)
    \/ \E i \in CallerIds : DecodeOutputs(i)
    \/ \E i \in CallerIds : Return(i)

SpecEncode == InitRun /\ [][NextEncode]_vars

-----------------------------------------------------------------------------
(* The usage logger. A JSON object is an insertion-ordered dictionary; a    *)
(* log file's content is the sequence of its lines, a line being the entry  *)
(* json.dumps wrote (its timestamp and session id left out).                *)

\* How many logger calls are followed.
MaxCalls == 2

DefaultEvents ==
    <<[key |-> "skill_invoked", value |-> TRUE], [key |-> "skill_read", value |-> TRUE],
      [key |-> "resource_fetched", value |-> TRUE]>>

\* {**a, **b}
RECURSIVE Merge(_, _)
Merge(a, b) == IF b = <<>> THEN a ELSE Merge(DictSet(a, Head(b).key, Head(b).value), Tail(b))

\* SkillUsageLogConfig()
DefaultLogConfig ==
    [enabled |-> TRUE, level |-> "info", output |-> "file", file_path |-> NoPath,
     events |-> DefaultEvents]

\* SkillUsageLogConfig.from_dict
from_dict(data) ==
    LET logging_config == GetOr(data, "logging", <<>>)
    IN  [enabled |-> GetOr(logging_config, "enabled", TRUE),
         level |-> GetOr(logging_config, "level", "info"),
         output |-> GetOr(logging_config, "output", "file"),
         file_path |-> GetOr(logging_config, "file_path", NoPath),
         events |-> Merge(DefaultEvents, GetOr(logging_config, "events", <<>>))]

\* SkillUsageLogConfig.should_log_event
should_log_event(config, event_type) ==
    IF ~config.enabled THEN FALSE
    ELSE IF config.level = "off" THEN FALSE
    ELSE GetOr(config.events, event_type, FALSE)

\* A configuration file: a JSON object, a JSON list, text that is no JSON,
\* bytes that are no text.
JsonFile(kind, data) == File([json |-> kind, data |-> data], <<>>, FALSE)

\* json.loads(path.read_text()) and from_dict on what it gives: the
\* configuration, or the exception.
ReadConfig(fs, path) ==
    IF IsDir(fs, path) THEN [ok |-> FALSE, error |-> "OSError"]
    ELSE LET text == fs.files[path].text
         IN  CASE text.json = "object" -> [ok |-> TRUE, config |-> from_dict(text.data)]
               [] text.json = "list" -> [ok |-> FALSE, error |-> "AttributeError"]
               [] text.json = "undecodable" -> [ok |-> FALSE, error |-> "UnicodeDecodeError"]
               [] OTHER -> [ok |-> FALSE, error |-> "JSONDecodeError"]

Caught == {"JSONDecodeError", "OSError"}

ConfigFileName == ".skillz-config.json"

\* An override: None, or a dictionary.
NoOverride == [given |-> FALSE, data |-> <<>>]
Override_(data) == [given |-> TRUE, data |-> data]

\* SkillUsageLogger._load_config; env_config is os.environ.get("SKILLZ_CONFIG").
load_config(fs, skills_root, config_override, env_config) ==
    LET config_file == Append(skills_root, ConfigFileName)
        fromRoot == ReadConfig(fs, config_file)
        fromEnv == ReadConfig(fs, env_config)
        defaults == [ok |-> TRUE, config |-> DefaultLogConfig]
        afterRoot ==
            IF env_config # NoPath /\ Exists(fs, env_config)
            THEN IF fromEnv.ok \/ fromEnv.error \notin Caught THEN fromEnv ELSE defaults
            ELSE defaults
    IN  IF config_override.given /\ config_override.data # <<>>
        THEN [ok |-> TRUE, config |-> from_dict(config_override.data)]
        ELSE IF Exists(fs, config_file)
        THEN IF fromRoot.ok \/ fromRoot.error \notin Caught THEN fromRoot ELSE afterRoot
        ELSE afterRoot

\* SkillUsageLogger._resolve_log_file: the log file and the disk after mkdir.
resolve_log_file(fs, config, skills_root) ==
    IF config.output \notin {"file", "both"} THEN [fs |-> fs, log_file |-> NoPath]
    ELSE LET log_file == IF config.file_path # NoPath THEN config.file_path
                         ELSE Parent(skills_root) \o <<"logs", "skill_usage.jsonl">>
         IN  IF \E a \in Ancestors(Parent(log_file)) : IsFile(fs, a)
             THEN [fs |-> fs, log_file |-> NoPath]
             ELSE [fs |-> MkdirParents(fs, Parent(log_file)), log_file |-> log_file]

Lines(fs, path) == IF IsFile(fs, path) THEN fs.files[path].text ELSE <<>>

\* _write_log_entry that opens the file for writing instead of appending.
write_log_entry_Truncating(fs, config, log_file, entry) ==
    IF config.output \in {"file", "both"} /\ log_file # NoPath /\ ~IsDir(fs, log_file)
    THEN [fs EXCEPT !.files = [f \in {log_file} |-> File(<<entry>>, <<>>, FALSE)] @@ @]
    ELSE fs

\* SkillUsageLogger._write_log_entry: the disk after it; opening a directory
\* for appending is an OSError, which is logged and dropped.
write_log_entry(fs, config, log_file, entry) ==
    IF config.output \in {"file", "both"} /\ log_file # NoPath /\ ~IsDir(fs, log_file)
    THEN [fs EXCEPT !.files = [f \in {log_file} |->
                                  File(Append(Lines(fs, log_file), entry), <<>>, FALSE)] @@ @]
    ELSE fs

\* What _write_log_entry prints to stderr.
StderrAfter(stderr, config, entry) ==
    IF config.output \in {"stderr", "both"} THEN Append(stderr, entry) ELSE stderr

\* The configurations a file or an override may hold.
LogSettings ==
    << <<>>,
      <<[key |-> "enabled", value |-> FALSE]>>,
      <<[key |-> "level", value |-> "off"]>>,
      <<[key |-> "level", value |-> "debug"], [key |-> "output", value |-> "both"]>>,
      <<[key |-> "output", value |-> "stderr"]>>,
      <<[key |-> "events", value |-> <<[key |-> "skill_read", value |-> FALSE]>>]>>,
      <<[key |-> "events", value |-> <<[key |-> "skill_invoked", value |-> FALSE],
                                       [key |-> "skill_complete", value |-> TRUE]>>]>>,
      <<[key |-> "file_path", value |-> <<"/", "var", "usage.jsonl">>]>> >>

ConfigDatas ==
    <<<<>>>> \o [k \in 1..Len(LogSettings) |-> <<[key |-> "logging", value |-> LogSettings[k]]>>]

\* What lies at the place of a configuration file.
ConfigFileKinds ==
    <<[kind |-> "absent"], [kind |-> "dir"], [kind |-> "malformed"], [kind |-> "list"],
      [kind |-> "undecodable"],
      [kind |-> "object", data |-> ConfigDatas[3]],
      [kind |-> "object", data |-> ConfigDatas[5]]>>

EnvFileKinds ==
    <<[kind |-> "absent"], [kind |-> "malformed"], [kind |-> "list"],
      [kind |-> "object", data |-> ConfigDatas[4]]>>

Overrides == <<NoOverride>> \o [k \in 1..Len(ConfigDatas) |-> Override_(ConfigDatas[k])]

EnvConfigFile == <<"/", "etc", "skillz.json">>
DefaultLogFile == <<"/", "logs", "skill_usage.jsonl">>

\* The disk the logger starts on: the two configuration files and a log file
\* with a line or none.
LogDiskOf(root_kind, env_kind, old) ==
    LET place(path, k) ==
            IF k.kind \in {"absent", "dir"} THEN <<>>
            ELSE path :> JsonFile(k.kind, IF k.kind = "object" THEN k.data ELSE <<>>)
        holds(path, k) == IF k.kind = "dir" THEN {path} ELSE {}
    IN  [dirs |-> {<<"/">>, SkillsRoot}
                  \cup holds(Append(SkillsRoot, ConfigFileName), root_kind)
                  \cup holds(EnvConfigFile, env_kind)
                  \cup (IF old THEN {Parent(DefaultLogFile)} ELSE {}),
         files |-> place(Append(SkillsRoot, ConfigFileName), root_kind)
                   @@ place(EnvConfigFile, env_kind)
                   @@ (IF old
                       THEN DefaultLogFile :>
                               File(<<[event |-> "skill_read", skill |-> <<"o">>]>>, <<>>, FALSE)
                       ELSE <<>>)]

\* SkillUsageLogger.initialize
Initialize(i) ==
    /\ i \in DOMAIN inv
    /\ inv[i].pc = "idle"
    /\ \E o \in 1..Len(Overrides), env_config \in {NoPath, EnvConfigFile} :
          LET config_override == Overrides[o]
              loaded == load_config(disk, SkillsRoot, config_override, env_config)
              request == [kind |-> "logger", config_override |-> config_override,
                          env_config |-> env_config]
          IN  IF ~loaded.ok
              THEN /\ inv' = [inv EXCEPT ![i] =
                          Finish([@ EXCEPT !.payload = request],
                                 [kind |-> loaded.error, about |-> "initialize"])]
                   /\ disk' = disk
              ELSE LET resolved == resolve_log_file(disk, loaded.config, SkillsRoot)
                   IN  /\ disk' = resolved.fs
                       /\ inv' = [inv EXCEPT ![i].pc = "serving",
                                             ![i].payload = request,
                                             ![i].pending =
                                                [kind |-> "logger",
                                                 config |-> loaded.config,
                                                 log_file |-> resolved.log_file,
                                                 earlier |-> Lines(disk, resolved.log_file),
                                                 calls |-> <<>>,
                                                 stderr |-> <<>>]]
    /\ UNCHANGED regvars

\* A log_* method: the check of should_log_event on `gate`, then the entry.
LogCall(i, method, gate, slug) ==
    /\ inv[i].pc = "serving"
    /\ Len(inv[i].pending.calls) < MaxCalls
    /\ LET logger == inv[i].pending
           entry == [event |-> method, skill |-> slug]
           logs == should_log_event(logger.config, gate)
       IN  /\ disk' = IF logs
                      THEN write_log_entry(disk, logger.config, logger.log_file, entry)
                      ELSE disk
           /\ inv' = [inv EXCEPT ![i].pending.calls = Append(@, entry),
                                 ![i].pending.stderr =
                                    IF logs THEN StderrAfter(@, logger.config, entry) ELSE @]
    /\ UNCHANGED regvars

LoggedSlugs == {<<"a">>}

log_skill_invoked(i) ==
    /\ i \in DOMAIN inv
    /\ \E slug \in LoggedSlugs : LogCall(i, "skill_invoked", "skill_invoked", slug)

log_skill_read(i) ==
    /\ i \in DOMAIN inv
    /\ \E slug \in LoggedSlugs : LogCall(i, "skill_read", "skill_read", slug)

log_resource_fetched(i) ==
    /\ i \in DOMAIN inv
    /\ \E slug \in LoggedSlugs : LogCall(i, "resource_fetched", "resource_fetched", slug)

\* log_skill_complete checks the event skill_invoked and writes skill_complete.
log_skill_complete(i) ==
    /\ i \in DOMAIN inv
    /\ \E slug \in LoggedSlugs : LogCall(i, "skill_complete", "skill_invoked", slug)


InitLog ==
    /\ \E r \in 1..Len(ConfigFileKinds), e \in 1..Len(EnvFileKinds), old \in BOOLEAN :
          disk = LogDiskOf(ConfigFileKinds[r], EnvFileKinds[e], old)
    /\ skills_by_slug = <<>>
    /\ skills_by_name = <<>>
    /\ load_pc = "idle"
    /\ load_todo = <<>>
    /\ inv = [i \in {1} |-> IdleInvocation]

NextLog ==
    \/ \E i \in CallerIds : Initialize(i)
    \/ \E i \in CallerIds : log_skill_invoked(i)
    \/ \E i \in CallerIds : log_skill_read(i)
    \/ \E i \in CallerIds : log_resource_fetched(i)
    \/ \E i \in CallerIds : log_skill_complete(i)
    \/ \E i \in CallerIds : Return(i)

SpecLog == InitLog /\ [][NextLog]_vars

-----------------------------------------------------------------------------
(* One skill with one script, of any name, first line and permission bits,  *)
(* run with a plain payload.                                                *)

Script(first_line, x) == [first_line |-> first_line] @@ File("data", <<>>, x)

ScriptNames == {"RUN.PY", "run.py", "a.sh", "a.bash", "a.js", "a.ps1", "tool", "notes.md"}

\* First lines: none, text, a marker with a launcher, with blanks around the
\* launcher, with a blank before the marker, a marker alone, an open quote.
FirstLines ==
    { <<>>,
      <<"data">>,
      <<Marker, "sh">>,
      <<Marker, " ", "python", " ">>,
      <<" ", Marker, "sh">>,
      <<Marker>>,
      <<Marker, "sh", " ", Quote>> }

LaunchDisk(name, first_line, x) ==
    [dirs |-> {<<"/">>, SkillsRoot, TmpRoot, Alpha},
     files |->
        (Append(Alpha, SKILL_MARKDOWN) :> GoodManifest(<<"a", "b">>))
     @@ (Append(Alpha, name) :> Script(first_line, x))]

InitLaunch ==
    /\ \E name \in ScriptNames, first_line \in FirstLines, x \in BOOLEAN :
          disk = LaunchDisk(name, first_line, x)
    /\ skills_by_slug = <<>>
    /\ skills_by_name = <<>>
    /\ load_pc = "idle"
    /\ load_todo = <<>>
    /\ inv = [i \in {1} |-> IdleInvocation]

\* run_script is called for the script of the skill.
CallScript(i) ==
    /\ i \in DOMAIN inv
    /\ inv[i].pc = "idle"
    /\ \E skill \in RegisteredSkills, name \in ScriptNames, timeout \in Timeouts :
          /\ IsFile(disk, Append(skill.directory, name))
          /\ Call(i, skill, <<name>>, PlainPayload, timeout)

NextLaunch ==
    \/ LoadBegin
    \/ LoadChild
    \/ LoadEnd
    \/ CallScript(1)
    \/ Enter(1)
    \/ Copy(1)
    \/ WriteFiles(1)
    \/ Prepare(1)
    \/ Spawn(1)
    \/ ChildWrite(1)
    \/ ChildExit(1)
    \/ Collect(1)
    \/ Timeout(1)
    \/ Kill(1)
    \/ Reap(1)
    \/ Exit(1)
    \/ Return(1)

SpecLaunch == InitLaunch /\ [][NextLaunch]_vars

\* The steps of run_script are taken when they can be: the event loop runs a
\* ready coroutine, the timer of wait_for fires, a killed child is reaped.
\* Nothing makes the child write or exit, or the caller call.
RunFairness ==
    /\ WF_vars(Enter(1))
    /\ WF_vars(Copy(1))
    /\ WF_vars(WriteFiles(1))
    /\ WF_vars(Prepare(1))
    /\ WF_vars(Spawn(1))
    /\ WF_vars(Collect(1))
    /\ WF_vars(Timeout(1))
    /\ WF_vars(Kill(1))
    /\ WF_vars(Reap(1))
    /\ WF_vars(Exit(1))

SpecLaunchLive == SpecLaunch /\ RunFairness

-----------------------------------------------------------------------------
(* load() called again on a registry that has loaded. *)

\* load() that empties the two dictionaries before it lists the root.
LoadAgain_Fresh(i) ==
    /\ i \in DOMAIN inv
    /\ load_pc = "done"
    /\ inv[i].pc = "idle"
    /\ inv' = [inv EXCEPT ![i].pc = "loading",
                          ![i].pending = [kind |-> "reload",
                                          by_slug |-> skills_by_slug,
                                          by_name |-> skills_by_name]]
    /\ skills_by_slug' = <<>>
    /\ skills_by_name' = <<>>
    /\ load_pc' = "iterating"
    /\ load_todo' = Sorted(IterDir(disk, SkillsRoot))
    /\ UNCHANGED disk

\* The caller calls load() on the loaded registry: the root check and the
\* sorted listing; the loop is that of the first call. The caller keeps what
\* the registry held when it called.
LoadAgain(i) ==
    /\ i \in DOMAIN inv
    /\ load_pc = "done"
    /\ inv[i].pc = "idle"
    /\ inv' = [inv EXCEPT ![i].pc = "loading",
                          ![i].pending = [kind |-> "reload",
                                          by_slug |-> skills_by_slug,
                                          by_name |-> skills_by_name]]
    /\ IF ~Exists(disk, SkillsRoot) \/ ~IsDir(disk, SkillsRoot)
       THEN /\ load_pc' = "raised"
            /\ load_todo' = <<>>
       ELSE /\ load_pc' = "iterating"
            /\ load_todo' = Sorted(IterDir(disk, SkillsRoot))
    /\ UNCHANGED <<disk, skills_by_slug, skills_by_name>>

\* The second load() returns or raises.
LoadAgainEnd(i) ==
    /\ i \in DOMAIN inv
    /\ inv[i].pc = "loading"
    /\ load_pc \in {"done", "raised"}
    /\ inv' = [inv EXCEPT ![i] =
             Finish(@, IF load_pc = "done" THEN [kind |-> "loaded"]
                       ELSE [kind |-> "SkillError", about |-> "root"])]
    /\ UNCHANGED <<disk, regvars>>

NextReload ==
    \/ LoadBegin
    \/ LoadChild
    \/ LoadEnd
    \/ LoadAgain(1)
    \/ LoadAgainEnd(1)
    \/ Skills(1)
    \/ Return(1)

SpecReload == Init /\ [][NextReload]_vars

-----------------------------------------------------------------------------
(* What the registry's properties are stated over: the candidates on disk. *)

Candidates == IF IsDir(disk, SkillsRoot) THEN IterDir(disk, SkillsRoot) ELSE {}
HasManifest(p) == IsDir(disk, p) /\ IsFile(disk, Append(p, SKILL_MARKDOWN))
ManifestOf(p) == parse_skill_md(disk.files[Append(p, SKILL_MARKDOWN)].text)
ValidCandidate(p) == HasManifest(p) /\ ManifestOf(p).ok
InvalidCandidate(p) == HasManifest(p) /\ ~ManifestOf(p).ok
SlugOf(p) == slugify(ManifestOf(p).metadata.name)
Before(p, q) == RankOf(p[Len(p)]) < RankOf(q[Len(q)])
Visited(p) == load_pc = "done" \/ (load_pc = "iterating" /\ \A i \in 1..Len(load_todo) : load_todo[i] # p)
RegisteredDirs == {skills_by_slug[i].value.directory : i \in 1..Len(skills_by_slug)}

\* C1: of the candidates that derive one slug, the first in discovery order
\* is the one registered under it, during and after load; a later one is
\* skipped and never replaces it.
C1_FirstSlugWins ==
    /\ \A i \in 1..Len(skills_by_slug) :
          LET e == skills_by_slug[i]
          IN  /\ ValidCandidate(e.value.directory)
              /\ SlugOf(e.value.directory) = e.key
              /\ \A p \in Candidates :
                    (ValidCandidate(p) /\ SlugOf(p) = e.key /\ p # e.value.directory)
                        => Before(e.value.directory, p)
    /\ \A p \in Candidates :
          (ValidCandidate(p) /\ Visited(p)) => DictHas(skills_by_slug, SlugOf(p))

C1_Witness ==
    /\ load_pc = "done"
    /\ \E p, q \in Candidates :
          /\ ValidCandidate(p) /\ ValidCandidate(q) /\ Before(p, q)
          /\ ManifestOf(p).metadata.name # ManifestOf(q).metadata.name
          /\ SlugOf(p) = SlugOf(q)
          /\ p \in RegisteredDirs /\ q \notin RegisteredDirs

\* C2: a candidate with an invalid manifest is skipped and load goes on: load
\* raises only for a bad root, and a valid candidate that comes after an
\* invalid one is registered just as without it, that is unless an earlier
\* valid candidate derives its slug.
C2_InvalidManifestSkipped ==
    /\ (load_pc = "raised") => ~IsDir(disk, SkillsRoot)
    /\ \A q \in Candidates : InvalidCandidate(q) => q \notin RegisteredDirs
    /\ (load_pc = "done") =>
          \A q, p \in Candidates :
             (InvalidCandidate(q) /\ Before(q, p) /\ ValidCandidate(p))
                 => \/ p \in RegisteredDirs
                    \/ \E r \in Candidates :
                          ValidCandidate(r) /\ Before(r, p) /\ SlugOf(r) = SlugOf(p)

C2_Witness ==
    /\ load_pc = "done"
    /\ \E q, p \in Candidates :
          InvalidCandidate(q) /\ Before(q, p) /\ ValidCandidate(p) /\ p \in RegisteredDirs

-----------------------------------------------------------------------------
(* What the request-time properties are stated over. *)

Active(i) == inv[i].pc \notin {"idle", "done"}
HoldsWorkspace(i) == Active(i) /\ inv[i].workspace # NoPath
IsRunScript(i) == inv[i].payload # NoOutcome
LandsOutside(base, rel) == ~IsPrefix(base, Resolve(Join(base, rel)))
TimedOut(outcome) == outcome.kind = "SkillExecutionError" /\ outcome.about = "timeout"

\* C3: once load has returned, no step of a request (get, skills, a resource
\* read, run_script in any of its steps, failing and timing out included)
\* changes the registry's dictionaries.
C3_RegistryFrozen ==
    [][load_pc = "done" =>
          /\ skills_by_slug' = skills_by_slug
          /\ skills_by_name' = skills_by_name]_vars

C3_Witness ==
    /\ load_pc = "done"
    /\ Len(skills_by_slug) = 2
    /\ \E i, j \in DOMAIN inv :
          /\ inv[i].pc = "done" /\ TimedOut(inv[i].outcome)
          /\ inv[j].pc = "done" /\ inv[j].outcome = [kind |-> "SkillError", about |-> "unknown skill"]

\* C4: when a run_script invocation that made a workspace has ended, with a
\* result or with any exception, the workspace and all below it are gone.
C4_WorkspaceRemoved ==
    \A i \in DOMAIN inv :
       (inv[i].pc = "done" /\ inv[i].workspace # NoPath) =>
          /\ ~Exists(disk, inv[i].workspace)
          /\ DirsUnder(disk, inv[i].workspace) = {}
          /\ FilesUnder(disk, inv[i].workspace) = {}

C4_Witness ==
    \E i \in DOMAIN inv :
       /\ inv[i].pc = "done"
       /\ inv[i].workspace # NoPath
       /\ inv[i].outcome.kind = "FileNotFoundError"
       /\ inv[i].payload.files # <<>>

\* C5: after the timeout the child is killed, then awaited, and only when it
\* is reaped does run_script raise the SkillExecutionError that names the
\* timeout; a timed-out invocation never yields a result.
C5_TimeoutState ==
    \A i \in DOMAIN inv :
       /\ (inv[i].pc = "kill") =>
             (inv[i].pending = NoOutcome /\ inv[i].child \in {"running", "exited"})
       /\ (inv[i].pc = "reap") => (inv[i].pending = NoOutcome /\ inv[i].child = "killed")
       /\ \A outcome \in {inv[i].pending, inv[i].outcome} :
             TimedOut(outcome) =>
                /\ outcome = [kind |-> "SkillExecutionError", about |-> "timeout",
                              seconds |-> inv[i].timeout]
                /\ inv[i].child = "reaped"
                /\ inv[i].spawned = 1

C5_TimeoutStep ==
    \A i \in DOMAIN inv :
       (inv[i].pc \in {"kill", "reap"} /\ inv'[i].pc \notin {"kill", "reap"}) =>
          /\ TimedOut(inv'[i].pending)
          /\ inv'[i].child = "reaped"

C5_TimeoutKillsReapsThenFails == []C5_TimeoutState /\ [][C5_TimeoutStep]_vars

C5_Witness ==
    \E i \in DOMAIN inv :
       /\ inv[i].pc = "done"
       /\ TimedOut(inv[i].outcome)
       /\ inv[i].surfaced = [kind |-> "ToolError", about |-> "timeout"]
       /\ inv[i].timeout = 5

\* C6 (as claimed): a request whose args is a string or not iterable, whose
\* stdin is neither text nor a mapping, or whose env is not a mapping ends in
\* an Execution error, and no child was spawned for it.
BadArgsStdinEnv(payload) ==
    \/ payload.args # "list"
    \/ payload.stdin.kind \notin {"none", "str", "mapping"}
    \/ payload.env # "mapping"

C7_BundleUnchanged ==
    /\ Tree(disk, SkillsRoot) = Tree(RunDisk, SkillsRoot)
    /\ \A i \in DOMAIN inv :
          /\ (inv[i].copied_path # NoPath) =>
                /\ IsPrefix(inv[i].workspace, inv[i].copied_path)
                /\ ~IsPrefix(SkillsRoot, inv[i].copied_path)
          /\ (inv[i].exec_command # <<>>) =>
                /\ inv[i].exec_command[Len(inv[i].exec_command)] = Direct(inv[i].rel_target)
                /\ IsPrefix(inv[i].copied_path, inv[i].rel_target)
                /\ IsPrefix(inv[i].copied_path, inv[i].workdir)

C7_Witness ==
    \E i \in DOMAIN inv :
       /\ inv[i].child = "exited"
       /\ IsFile(disk, Append(inv[i].copied_path, "run.py"))
       /\ disk.files[Append(inv[i].copied_path, "run.py")].text = "payload"
       /\ disk.files[Append(inv[i].skill, "run.py")].text = "data"
       /\ IsFile(disk, ChildOutput(inv[i].workdir))
       /\ ~IsFile(disk, ChildOutput(inv[i].skill))

\* C8: overlapping invocations have different workspaces, each made fresh;
\* every path an invocation works on lies below its own workspace, and a
\* step of one invocation (its cleanup included) leaves what is below
\* another's workspace as it is.
C8_State ==
    \A i, j \in DOMAIN inv :
       (i # j /\ HoldsWorkspace(i) /\ HoldsWorkspace(j)) =>
          /\ inv[i].workspace # inv[j].workspace
          /\ IsDir(disk, inv[i].workspace)
          /\ \A p \in {inv[i].copied_path, inv[i].rel_target, inv[i].workdir} \ {NoPath} :
                IsPrefix(inv[i].workspace, p) /\ ~IsPrefix(inv[j].workspace, p)

C8_Step ==
    \A j \in DOMAIN inv :
       /\ (inv[j].pc = "enter" /\ inv'[j].pc = "copy") =>
             /\ ~Exists(disk, inv'[j].workspace)
             /\ Tree(disk', inv'[j].workspace) =
                   [dirs |-> {inv'[j].workspace}, files |-> <<>>]
       /\ (HoldsWorkspace(j) /\ inv'[j] = inv[j]) =>
             \/ Tree(disk', inv[j].workspace) = Tree(disk, inv[j].workspace)
             \/ /\ inv[j].child = "running"
                /\ disk' = WriteBytes(disk, ChildOutput(inv[j].workdir), "child")

C8_WorkspacesExclusive == []C8_State /\ [][C8_Step]_vars

C8_Witness ==
    \E i, j \in DOMAIN inv :
       /\ i # j
       /\ inv[i].skill = inv[j].skill
       /\ inv[i].pc = "wait" /\ inv[j].pc = "exit"
       /\ inv[i].workspace # inv[j].workspace
       /\ IsFile(disk, ChildOutput(inv[i].workdir))

\* C9 (as claimed): every failure of a run_script request reaches the caller
\* of the skill tool as a ToolError made from a SkillExecutionError (or
\* another SkillError); no other kind of exception comes out.
C9_FailuresAreExecutionErrors ==
    \A i \in DOMAIN inv :
       (inv[i].pc = "done" /\ IsRunScript(i) /\ inv[i].outcome.kind # "result") =>
          inv[i].surfaced.kind = "ToolError"

\* C10: a path is resolved only to its base or below it. A target, an input
\* file's path or a workdir that lands outside is answered with the
\* traversal error, and for it nothing is read, written or spawned.
EscapingEntry(i) ==
    \E k \in 1..Len(inv[i].payload.files) :
       /\ inv[i].payload.files[k].type = "mapping"
       /\ inv[i].payload.files[k].path # <<>>
       /\ LandsOutside(CopyDestination(inv[i].workspace, inv[i].skill),
                       inv[i].payload.files[k].path)

Traversal == [kind |-> "SkillError", about |-> "traversal"]

C11_UriRoundTrip ==
    \A i \in DOMAIN inv :
       /\ (inv[i].pc = "built") =>
             \A slug \in RegisteredSlugs, path \in UriPaths :
                (build_uri(slug, path) = inv[i].pending.uri) =>
                   (slug = inv[i].payload.slug /\ path = inv[i].payload.path)
       /\ (inv[i].pc = "done" /\ inv[i].outcome.kind = "resolved") =>
             /\ inv[i].outcome.value.ok
             /\ inv[i].outcome.value.slug = inv[i].payload.slug
             /\ inv[i].outcome.value.path = inv[i].payload.path

C11_Witness ==
    \E i \in DOMAIN inv :
       /\ inv[i].pc = "done"
       /\ inv[i].outcome.kind = "resolved"
       /\ inv[i].payload.path = << <<"a", " ", "b">>, <<"%", "2", "0">> >>
       /\ inv[i].outcome.value.path = inv[i].payload.path

\* C12: a lookup by URI always answers with a payload; for a bad URI the
\* payload is text that starts with 'Error:' and names one cause of the
\* six, and a URI with another prefix is answered with unsupported prefix
\* whatever follows the prefix.
MissCauses ==
    {"empty", "unsupported_prefix", "invalid_format", "skill_not_found",
     "resource_not_found", "path_traversal"}

IsErrorPayload(outcome) == Len(outcome.content) = 2 /\ outcome.content[1] = "Error:"

C12_LookupMissesAreErrorPayloads ==
    \A i \in DOMAIN inv :
       (inv[i].pc = "done" /\ inv[i].payload.kind \in {"lookup", "uri"}
          /\ inv[i].outcome.kind # "resolved") =>
          LET uri == IF inv[i].payload.kind = "lookup" THEN inv[i].payload.uri
                     ELSE inv[i].pending.uri
              answer == inv[i].outcome
          IN  /\ answer.kind = "payload"
              /\ answer.uri = uri
              /\ answer.encoding = "utf-8"
              /\ IsErrorPayload(answer) => answer.content[2] \in MissCauses
              /\ (uri = <<>>) => answer.content = <<"Error:", "empty">>
              /\ (uri # <<>> /\ Head(uri) # UriPrefix) =>
                    answer.content = <<"Error:", "unsupported_prefix">>
              /\ (uri # <<>> /\ Head(uri) = UriPrefix
                    /\ (Len(uri) = 1 \/ uri[2] = Separator)) =>
                    answer.content = <<"Error:", "invalid_format">>
              /\ (IsPrefix(<<UriPrefix>> \o A_B \o <<Separator>>, uri)
                    /\ LandsOutside(Alpha, SelectSeq(SubSeq(uri, 6, Len(uri)),
                                                      LAMBDA t : t # Separator))) =>
                    answer.content = <<"Error:", "path_traversal">>
              /\ ~IsErrorPayload(answer) =>
                    \E f \in FilesUnder(disk, SkillsRoot) :
                       Name(f) # SKILL_MARKDOWN /\ answer.content = <<disk.files[f].text>>

C12_Witness ==
    \E i \in DOMAIN inv :
       /\ inv[i].pc = "done"
       /\ inv[i].payload = [kind |-> "lookup",
                            uri |-> <<OtherPrefix, "a", "-", "b", "/", "run.py">>]
       /\ inv[i].outcome.content = <<"Error:", "unsupported_prefix">>

Parsed(i) == inv[i].pc = "done" /\ inv[i].outcome.kind = "parsed"
HeaderIsMapping(text) == text.header.type = "map"
HasKey(text, key) == DictHas(text.header.entries, key)
ValueOf(text, key) == DictGet(text.header.entries, key)

\* A field's value is empty after trimming: text of nothing but blanks, or
\* the empty node (null).
EmptyValue(v) ==
    \/ v.type = "null"
    \/ v.type = "str" /\ Strip(v.chars, Whitespace) = <<>>

MissingOrEmpty(text, key) == ~HasKey(text, key) \/ EmptyValue(ValueOf(text, key))

\* C13 (as claimed): parsing succeeds for a front-matter block whose header
\* is a mapping with name and description non-empty after trimming, fails
\* with a Validation error when the block is absent, the header is not a
\* mapping, or name or description is missing or empty after trimming; on
\* success extra holds exactly the other header keys with their values.
C13_ParseAcceptsExactlyWellFormed ==
    \A i \in DOMAIN inv :
       Parsed(i) =>
          LET text == inv[i].payload.text
              result == inv[i].outcome.value
              wellformed == /\ text.front = "block"
                            /\ HeaderIsMapping(text)
                            /\ ~MissingOrEmpty(text, "name")
                            /\ ~MissingOrEmpty(text, "description")
          IN  /\ wellformed => result.ok
              /\ ~wellformed => result = ValidationError
              /\ result.ok =>
                    /\ DictKeys(result.metadata.extra) = DictKeys(text.header.entries) \ KnownKeys
                    /\ \A k \in DictKeys(result.metadata.extra) :
                          DictGet(result.metadata.extra, k) = ValueOf(text, k)

\* What the claim gives for a header value of allowed-tools, by its type.
ClaimedAllowed(v) ==
    IF v.type = "str" THEN StripAll(SplitComma(v.chars))
    ELSE IF v.type = "seq" THEN StripAll([k \in 1..Len(v.items) |-> PyStr(v.items[k])])
    ELSE <<>>

WithoutAllowed(text) ==
    Manifest(text.front,
             YMap(SelectSeq(text.header.entries,
                            LAMBDA e : e.key \notin {"allowed-tools", "allowed_tools"})))

\* C14 (as claimed): allowed_tools is the trimmed non-empty parts of a
\* string value, the stringified, trimmed, non-empty items of a sequence,
\* and empty for a value of any other type; the field never makes parsing
\* fail. Stated for headers that give the field under one key at most.
C14_AllowedToolsByType ==
    \A i \in DOMAIN inv :
       (Parsed(i) /\ inv[i].payload.text.front = "block"
          /\ HeaderIsMapping(inv[i].payload.text)) =>
          LET text == inv[i].payload.text
              result == inv[i].outcome.value
              keys == {k \in {"allowed-tools", "allowed_tools"} : HasKey(text, k)}
          IN  /\ result.ok = parse_skill_md(WithoutAllowed(text)).ok
              /\ (result.ok /\ keys = {}) => result.metadata.allowed_tools = <<>>
              /\ (result.ok /\ Cardinality(keys) = 1) =>
                    result.metadata.allowed_tools =
                       ClaimedAllowed(ValueOf(text, CHOOSE k \in keys : TRUE))

Slugged(i) == inv[i].pc = "done" /\ inv[i].outcome.kind = "slug"
SlugChars == {"a", "b", "d", "e", "f", "i", "k", "l", "n", "o", "r", "s", "t", "u",
              "0", "1", "5", "-"}
AsciiFree(name) == \A k \in 1..Len(name) : name[k] \notin AsciiAlnum

\* The shape of a slug: not empty, of lowercase ASCII letters, digits and
\* hyphens, no two hyphens in a row, no hyphen at either end, and slugify
\* leaves it as it is.
WellShapedSlug(i) ==
    LET slug == inv[i].outcome.first
    IN  /\ inv[i].outcome.again = slug
        /\ slug # <<>>
        /\ \A k \in 1..Len(slug) : slug[k] \in SlugChars
        /\ \A k \in 1..(Len(slug) - 1) : ~(slug[k] = "-" /\ slug[k + 1] = "-")
        /\ slug[1] # "-"
        /\ slug[Len(slug)] # "-"

\* C15 (as claimed): slugify is idempotent, its result is well shaped, and
\* a name with no ASCII letter or digit yields the fallback 'skill'.
C15_SlugifyAsClaimed ==
    \A i \in DOMAIN inv :
       Slugged(i) =>
          /\ WellShapedSlug(i)
          /\ AsciiFree(inv[i].payload.name) => inv[i].outcome.first = FallbackSlug

\* C15 (amended): slugify is idempotent, its result is well shaped, and a
\* name whose lower-case form has no ASCII letter or digit yields the
\* fallback 'skill'.
C15_Slugify ==
    \A i \in DOMAIN inv :
       Slugged(i) =>
          /\ WellShapedSlug(i)
          /\ AsciiFree(LowerAll(inv[i].payload.name)) => inv[i].outcome.first = FallbackSlug

C15_Witness ==
    \E i \in DOMAIN inv :
       /\ Slugged(i)
       /\ inv[i].payload.name = <<"-", "u00e9", " ">>
       /\ inv[i].outcome.again = FallbackSlug

EnvBuilt(i) == inv[i].pc = "done" /\ inv[i].outcome.kind = "env"
Forwarded == {"PATH"} \cup {ForwardedKeys[k] : k \in 1..Len(ForwardedKeys)}

\* Two hosts that differ in nothing the child may see.
SameForwarded(a, b) ==
    \A key \in Forwarded :
       /\ DictHas(a, key) <=> DictHas(b, key)
       /\ DictHas(a, key) => DictGet(a, key) = DictGet(b, key)

C17_State ==
    \A i \in DOMAIN inv :
       /\ inv[i].spawned <= 1
       /\ (inv[i].spawned = 0) <=> (inv[i].child = "none")
       /\ (inv[i].pending # NoOutcome) => inv[i].pc \in {"exit", "done"}
       /\ (inv[i].outcome # NoOutcome) <=> (inv[i].pc = "done")

C17_Step ==
    \A i \in DOMAIN inv :
       \/ inv'[i] = inv[i]
       \/ inv'[i] = IdleInvocation /\ inv[i].pc = "done"
       \/ /\ inv[i].outcome = NoOutcome
          /\ inv'[i].spawned >= inv[i].spawned
          /\ (inv[i].pending # NoOutcome) =>
                /\ inv'[i].spawned = inv[i].spawned
                /\ inv'[i].child = inv[i].child
                /\ inv'[i].pc = "done"
                /\ inv'[i].outcome # NoOutcome

C17_OneChildOneOutcome == []C17_State /\ [][C17_Step]_vars

C17_Witness ==
    \E i \in DOMAIN inv :
       /\ inv[i].pc = "done"
       /\ TimedOut(inv[i].outcome)
       /\ inv[i].spawned = 1
       /\ inv[i].child = "reaped"

OtherFiles(skill) ==
    {SubSeq(f, Len(skill.directory) + 1, Len(f)) :
        f \in RGlobFiles(disk, skill.directory) \ {skill.instructions_path}}
ListedResources(skill) == {skill.resources[k] : k \in 1..Len(skill.resources)}

\* C18 (as claimed): the resource list of a registered skill never holds the
\* manifest: it holds exactly the bundle's other files, n of them for a
\* bundle of a manifest and n other files.
C18_ResourcesExcludeManifest ==
    \A skill \in RegisteredSkills :
       /\ <<SKILL_MARKDOWN>> \notin ListedResources(skill)
       /\ ListedResources(skill) = OtherFiles(skill)
       /\ Len(skill.resources) = Cardinality(OtherFiles(skill))

\* C19: skills lists every registered skill once, in the order of
\* registration, which is the sorted order of the root's children; get
\* returns the registered skill for the slugs of those skills and fails with
\* the unknown-skill error for any other slug.
C19_SkillsInOrderGetExact ==
    /\ \A k \in 1..Len(skills_by_slug) :
          /\ skills_by_slug[k].key = skills_by_slug[k].value.slug
          /\ \A j \in 1..(k - 1) :
                /\ skills_by_slug[j].key # skills_by_slug[k].key
                /\ Before(skills_by_slug[j].value.directory,
                          skills_by_slug[k].value.directory)
    /\ \A i \in DOMAIN inv :
          inv[i].pc = "done" =>
             /\ inv[i].outcome.kind = "skills" =>
                   /\ Len(inv[i].outcome.value) = Len(skills_by_slug)
                   /\ \A k \in 1..Len(skills_by_slug) :
                         inv[i].outcome.value[k] = skills_by_slug[k].value
             /\ inv[i].outcome.kind \in {"skill", "SkillError"} =>
                   LET hits == {s \in RegisteredSkills : s.slug = inv[i].target}
                   IN  IF hits = {}
                       THEN inv[i].outcome = [kind |-> "SkillError", about |-> "unknown skill"]
                       ELSE /\ inv[i].outcome.kind = "skill"
                            /\ hits = {inv[i].outcome.value}

C19_Witness ==
    \E i \in DOMAIN inv :
       /\ inv[i].pc = "done"
       /\ inv[i].outcome.kind = "skills"
       /\ Len(inv[i].outcome.value) = 2
       /\ inv[i].outcome.value[1].directory = ChildPath(1)
       /\ inv[i].outcome.value[2].directory = ChildPath(3)
       /\ IsFile(disk, Append(ChildPath(2), SKILL_MARKDOWN))

RootUnusable == ~Exists(disk, SkillsRoot) \/ ~IsDir(disk, SkillsRoot)

\* C20: load on a root that does not exist or is not a directory raises
\* before it looks at any candidate and registers nothing: the registry is
\* after the failed call what it was before it.
C20_State ==
    (RootUnusable /\ load_pc # "idle") =>
       /\ load_pc = "raised"
       /\ load_todo = <<>>
       /\ skills_by_slug = <<>>
       /\ skills_by_name = <<>>

C20_Step ==
    RootUnusable =>
       /\ skills_by_slug' = skills_by_slug
       /\ skills_by_name' = skills_by_name
       /\ load_todo' = load_todo
       /\ load_pc' \in {load_pc, "raised"}

C20_BadRootRaisesRegistersNothing == []C20_State /\ [][C20_Step]_vars

C20_Witness ==
    /\ load_pc = "raised"
    /\ IsFile(disk, SkillsRoot)
    /\ skills_by_slug = <<>>

NameOf(p) == ManifestOf(p).metadata.name

\* C21: a candidate whose display name is the display name of a skill
\* registered from another directory is skipped, so no two registered skills
\* have one display name, during and after load.
C21_DisplayNamesUnique ==
    /\ \A j, k \in 1..Len(skills_by_slug) :
          j # k => skills_by_slug[j].value.metadata.name # skills_by_slug[k].value.metadata.name
    /\ \A p, q \in Candidates :
          (ValidCandidate(p) /\ ValidCandidate(q) /\ Before(p, q) /\ NameOf(p) = NameOf(q))
              => q \notin RegisteredDirs

C21_Witness ==
    /\ load_pc = "done"
    /\ \E p, q \in Candidates :
          /\ ValidCandidate(p) /\ ValidCandidate(q) /\ Before(p, q)
          /\ NameOf(p) = NameOf(q)
          /\ disk.files[Append(p, SKILL_MARKDOWN)].text # disk.files[Append(q, SKILL_MARKDOWN)].text
          /\ p \in RegisteredDirs /\ q \notin RegisteredDirs

-----------------------------------------------------------------------------
(* What the properties of discovery over both backends are stated over. *)

Entries == IF IsDir(disk, SkillsRoot) THEN IterDir(disk, SkillsRoot) ELSE {}
IsArchiveEntry(p) == IsZipFile(disk, p) /\ EntrySuffix(Name(p)) \in ArchiveSuffixes
HasEntryManifest(p) ==
    \/ IsDir(disk, p) /\ IsFile(disk, Append(p, SKILL_MARKDOWN))
    \/ IsArchiveEntry(p) /\ <<SKILL_MARKDOWN>> \in DOMAIN disk.files[p].members
EntryManifest(p) ==
    parse_skill_md(IF IsDir(disk, p) THEN disk.files[Append(p, SKILL_MARKDOWN)].text
                   ELSE disk.files[p].members[<<SKILL_MARKDOWN>>].text)
ValidEntry(p) == HasEntryManifest(p) /\ EntryManifest(p).ok
EntrySlug(p) == slugify(EntryManifest(p).metadata.name)
EntryBefore(p, q) == EntryRank(Name(p)) < EntryRank(Name(q))
EntryVisited(p) ==
    load_pc = "done" \/ (load_pc = "iterating" /\ \A k \in 1..Len(load_todo) : load_todo[k] # p)

NestedArchives ==
    {f \in DOMAIN disk.files : Len(f) > Len(SkillsRoot) + 1 /\ IsZipFile(disk, f)}

\* C23: an archive inside a directory-backed bundle is never registered as
\* a skill, valid manifest or not: every registered skill is a child of the
\* root, and the archive is a resource of the directory skill that holds it.
C23_NestedArchiveIsNoSkill ==
    /\ \A k \in 1..Len(skills_by_slug) :
          /\ Parent(skills_by_slug[k].value.directory) = SkillsRoot
          /\ skills_by_slug[k].value.directory \notin NestedArchives
          /\ skills_by_slug[k].value.metadata.name # <<"n", "e", "s", "t", "e", "d">>
    /\ \A f \in NestedArchives :
          \A k \in 1..Len(skills_by_slug) :
             skills_by_slug[k].value.directory = Parent(f) =>
                \E r \in 1..Len(skills_by_slug[k].value.resources) :
                   skills_by_slug[k].value.resources[r] = <<Name(f)>>

C23_Witness ==
    /\ load_pc = "done"
    /\ \E f \in NestedArchives :
          /\ Parent(f) \in RegisteredDirs
          /\ parse_skill_md(disk.files[f].members[<<SKILL_MARKDOWN>>].text).ok
          /\ Len(skills_by_slug) = 1

-----------------------------------------------------------------------------
(* What the properties of the pure functions are stated over. *)

Decoded(i) == inv[i].pc = "done" /\ inv[i].outcome.kind = "decoded"

\* The bytes are UTF-8: every byte is ASCII or belongs to a lead byte and
\* its continuation byte.
RECURSIVE ValidUtf8(_)
ValidUtf8(data) ==
    \/ data = <<>>
    \/ Head(data) = 65 /\ ValidUtf8(Tail(data))
    \/ Len(data) >= 2 /\ Head(data) = 195 /\ data[2] = 169 /\ ValidUtf8(Tail(Tail(data)))

RoundTrips(data, encoded, back) ==
    /\ encoded.encoding = (IF ValidUtf8(data) THEN "text" ELSE "base64")
    /\ encoded.encoding = "base64" => \A k \in 1..Len(encoded.content) : encoded.content[k] \in 0..Pad
    /\ back.ok
    /\ back.bytes = data

\* C24: every byte string is encoded, as text when it is UTF-8 and as base64
\* when it is not; decoding the content by its tag gives the bytes back; the
\* encoding of one stream does not depend on the other.
C24_OutputEncodingLossless ==
    \A i \in DOMAIN inv :
       Decoded(i) =>
          /\ RoundTrips(inv[i].payload.stdout, inv[i].outcome.result.stdout, inv[i].outcome.stdout)
          /\ RoundTrips(inv[i].payload.stderr, inv[i].outcome.result.stderr, inv[i].outcome.stderr)
          /\ inv[i].outcome.result.stdout = encode_output(inv[i].payload.stdout)
          /\ inv[i].outcome.result.stderr = encode_output(inv[i].payload.stderr)

C24_Witness ==
    \E i \in DOMAIN inv :
       /\ Decoded(i)
       /\ inv[i].payload.stdout = <<65, 195, 169>>
       /\ inv[i].outcome.result.stdout = [encoding |-> "text", content |-> <<65, 233>>]
       /\ inv[i].payload.stderr = <<255, 65>>
       /\ inv[i].outcome.result.stderr.encoding = "base64"
       /\ inv[i].outcome.result.stderr.content = <<63, 52, 4, Pad>>

-----------------------------------------------------------------------------
(* What the logger's properties are stated over. *)

Serving(i) == inv[i].pc = "serving"
\* should_log_event on the event kind of the call, the kind its line carries.
Passes(config, call) == should_log_event(config, call.event)

Initialized(i) == inv[i].payload # NoOutcome /\ inv[i].pc \in {"serving", "done"}
UsableConfig(path) == IsFile(disk, path) /\ disk.files[path].text.json = "object"
ConfigIn(path) == from_dict(disk.files[path].text.data)

\* C26 (as claimed): initialize never fails; with an override the
\* configuration is that of the override alone; without one it is that of
\* the root's .skillz-config.json when that is readable JSON, else that of
\* the file SKILLZ_CONFIG names, else the defaults.
C26_ConfigSources ==
    \A i \in DOMAIN inv :
       Initialized(i) =>
          /\ inv[i].pc = "serving"
          /\ inv[i].pending.config =
                IF inv[i].payload.config_override.given
                THEN from_dict(inv[i].payload.config_override.data)
                ELSE IF UsableConfig(Append(SkillsRoot, ConfigFileName))
                THEN ConfigIn(Append(SkillsRoot, ConfigFileName))
                ELSE IF inv[i].payload.env_config # NoPath
                        /\ UsableConfig(inv[i].payload.env_config)
                THEN ConfigIn(inv[i].payload.env_config)
                ELSE DefaultLogConfig

-----------------------------------------------------------------------------
(* What the launcher's properties are stated over. *)

Words(line) ==
    LET words == SelectSeq(line, LAMBDA t : t \notin Whitespace \cup {Quote})
    IN  [k \in 1..Len(words) |-> Launcher(words[k])]

FixedInterpreters ==
    <<[key |-> ".py", value |-> SysExecutable], [key |-> ".sh", value |-> "bash"],
      [key |-> ".bash", value |-> "bash"], [key |-> ".js", value |-> "node"],
      [key |-> ".ps1", value |-> "powershell"]>>

\* The launcher the precedence rule gives a script, read on the first line
\* as it stands in the file.
ClaimedLauncher(file, name) ==
    LET line == FirstLine(file)
    IN  IF line # <<>> /\ Head(line) = Marker
        THEN [ok |-> TRUE, launcher |-> Words(Tail(line))]
        ELSE IF DictHas(FixedInterpreters, Suffix(name))
        THEN [ok |-> TRUE, launcher |-> <<Launcher(DictGet(FixedInterpreters, Suffix(name)))>>]
        ELSE IF file.x THEN [ok |-> TRUE, launcher |-> <<>>]
        ELSE [ok |-> FALSE]

\* The request has its command, or has failed to find one.
CommandDecided(i) ==
    /\ inv[i].rel_target # NoPath
    /\ \/ inv[i].pc = "spawn"
       \/ inv[i].pc = "exit" /\ inv[i].exec_command = <<>>

\* C27: a first line starting with the marker gives its words as launcher
\* whatever the extension; otherwise a recognised extension gives its
\* interpreter whatever the permission bits; otherwise an executable file is
\* run directly; otherwise the request fails with an Execution error and
\* nothing is spawned.
C27_LauncherPrecedence ==
    \A i \in DOMAIN inv :
       CommandDecided(i) =>
          LET claimed == ClaimedLauncher(disk.files[inv[i].rel_target],
                                         Name(inv[i].rel_target))
          IN  IF claimed.ok
              THEN /\ inv[i].pc = "spawn"
                   /\ inv[i].exec_command = claimed.launcher \o <<Direct(inv[i].rel_target)>>
              ELSE /\ inv[i].pc = "exit"
                   /\ inv[i].pending = [kind |-> "SkillExecutionError", about |-> "interpreter"]
                   /\ inv[i].spawned = 0


Running(i) == inv[i].pc \notin {"idle", "done"}
Ended(i) ==
    /\ inv[i].pc = "done"
    /\ inv[i].outcome # NoOutcome
    /\ ~Exists(disk, inv[i].workspace)

\* C28: a run_script invocation under way eventually ends, with a result or
\* with an error, and its workspace is removed by then, whether the child
\* exits by itself or not.
C28_RunEnds == Running(1) ~> Ended(1)

\* The child did not exit, the timeout ended the wait, the child was killed
\* and reaped, and the workspace is gone.
C28_Witness ==
    /\ inv[1].pc = "done"
    /\ inv[1].child = "reaped"
    /\ inv[1].outcome = [kind |-> "SkillExecutionError", about |-> "timeout",
                         seconds |-> inv[1].timeout]
    /\ inv[1].workspace # NoPath
    /\ ~Exists(disk, inv[1].workspace)


BySlugSkills == [k \in 1..Len(skills_by_slug) |-> skills_by_slug[k].value]
ByNameSkills == [k \in 1..Len(skills_by_name) |-> skills_by_name[k].value]
NoRepeats(s) == \A j, k \in 1..Len(s) : j # k => s[j] # s[k]
Range(s) == {s[k] : k \in 1..Len(s)}

\* C29: during and after load the slug index and the name index hold the
\* same skills, each once; a skill is under its slug and under its display
\* name, and its slug is slugify of its display name; so a candidate whose
\* display name is registered has its slug registered too, and the slug check
\* rejects it.
C29_IndexesAgree ==
    /\ Range(BySlugSkills) = Range(ByNameSkills)
    /\ NoRepeats(BySlugSkills) /\ NoRepeats(ByNameSkills)
    /\ \A k \in 1..Len(skills_by_slug) :
          /\ skills_by_slug[k].key = skills_by_slug[k].value.slug
          /\ skills_by_slug[k].value.slug = slugify(skills_by_slug[k].value.metadata.name)
    /\ \A k \in 1..Len(skills_by_name) :
          skills_by_name[k].key = skills_by_name[k].value.metadata.name
    /\ \A p \in Candidates :
          (ValidCandidate(p) /\ DictHas(skills_by_name, NameOf(p)))
              => DictHas(skills_by_slug, SlugOf(p))

\* Two skills are registered and a third candidate has the display name of
\* one of them.
C29_Witness ==
    /\ load_pc = "done"
    /\ Len(skills_by_slug) >= 2
    /\ \E p \in Candidates :
          /\ ValidCandidate(p)
          /\ p \notin RegisteredDirs
          /\ DictHas(skills_by_name, NameOf(p))


Reloading(i) == inv[i].pending.kind = "reload"

\* C30: from a second call of load() on, during it and after it, the two
\* dictionaries are what they were when it was called, entry by entry and in
\* order; every valid candidate's slug is registered, so each is skipped; and
\* the call does not raise.
C30_SecondLoadChangesNothing ==
    \A i \in DOMAIN inv :
       Reloading(i) =>
          /\ skills_by_slug = inv[i].pending.by_slug
          /\ skills_by_name = inv[i].pending.by_name
          /\ \A p \in Candidates : ValidCandidate(p) => DictHas(skills_by_slug, SlugOf(p))
          /\ load_pc # "raised"
          /\ inv[i].pc = "done" => inv[i].outcome = [kind |-> "loaded"]

\* The second load has returned on a root of two registered skills and a
\* candidate skipped for its slug.
C30_Witness ==
    \E i \in DOMAIN inv :
       /\ Reloading(i)
       /\ inv[i].pc = "done"
       /\ Len(skills_by_slug) >= 2
       /\ \E p \in Candidates : ValidCandidate(p) /\ p \notin RegisteredDirs

====
